---- MODULE Spec2Model ----
(***************************************************************************)
(* Model of the paper-trading simulator's strategy execution engine and    *)
(* portfolio ledger:                                                       *)
(*   - usePortfolio.executeOrder / resetPortfolio   (client ledger)        *)
(*   - useStrategyManager                            (client scheduler)    *)
(*   - strategy-service executeStrategies / executeDCA (server cron pass)  *)
(*                                                                         *)
(* Numbers.  The code computes with IEEE doubles.  The model uses integers *)
(* and exact rationals <<num, den>>; <<0, 0>> stands for a non-finite      *)
(* value (NaN, +-Infinity).  Clock values are milliseconds.                *)
(*                                                                         *)
(* Rendering.  A React state update made in a handler is rendered, and the *)
(* effects that depend on it are re-run, before the next timer or event    *)
(* handler runs; a handler therefore comprises the re-render it causes.    *)
(***************************************************************************)
EXTENDS Integers, Sequences, FiniteSets, TLC

\* ------------------------------------------------------------------------
\* Bounds of the model
\* ------------------------------------------------------------------------
MaxTime == 2000
MaxTx == 3

\* ------------------------------------------------------------------------
\* Program constants
\* ------------------------------------------------------------------------
InitialUsdAmount == 10000
MinTransactionGapMs == 500
TransactionRetentionMs == 5000
CleanupIntervalMs == 5000

StartTime == 2 * MinTransactionGapMs
TimeSteps == {500}
QuarterMs == 250

\* the scheduler's clock
SchedStartTime == 100 * 5000
MaxSchedTime == 540000
MaxSignalTime == 1150000
SchedTimeSteps == {5000}
MaxOrders == 2

\* the server model
CronStartTime == 20 * 5000
MaxCronTime == 130000
MaxCronLog == 3
MaxHistory == 4
CronTimeSteps == {15000}
CronMarkets == {<<>>, <<[symbol |-> "BTC", currentPrice |-> 50]>>,
                <<[symbol |-> "ETH", currentPrice |-> 50], [symbol |-> "BTC", currentPrice |-> 100]>>}

NoUser == "none"
Types == {"buy", "sell"}
Symbols == {"BTC", "ETH"}
Amounts == {-1, 0, 1, 2}
Prices == {2000, 5000}

VARIABLES
  now,                \* Date.now()
  user,               \* useUser().user
  portfolioRef,       \* portfolioRef.current / portfolio state: sequence of PortfolioItem
  initialUsd,         \* the USD item object of the module constant INITIAL_PORTFOLIO
  aliased,            \* portfolioRef's USD item is the INITIAL_PORTFOLIO object itself
  transactionLog,     \* module-global Map transactionId -> {timestamp, processed}
  lastTransactionRef, \* lastTransactionRef.current
  nextCleanup,        \* due time of the setInterval(cleanup, 5000) timer
  mounted,            \* useStrategyManager has been mounted
  strategy,           \* the strategy prop of useStrategyManager (NoStrategy for null)
  cryptoData,         \* the cryptoData prop: sequence of CryptoData
  lastExecution,      \* React state lastExecution: strategy id -> ISO time string
  lastExecutionTimeRef, \* lastExecutionTimeRef.current: key -> number
  storage,            \* localStorage item 'strategy_execution_times'
  intervalRef,        \* the setInterval timer held by intervalRef.current
  orders,             \* the calls of the executeOrder prop made by the scheduler
  strategiesFile,     \* data/strategies.json: sequence of Strategy
  portfolioFile,      \* data/portfolios/default.json
  cron,               \* the executeStrategies invocations: position and locals
  consoleLog,         \* the 'Executing DCA trade:' lines of the server log
  history,            \* a price history of one asset, oldest to newest
  detector,           \* the strategy configuration evaluated on the history
  verdict,            \* what the evaluation did: "BUY", "SELL", "HOLD" ("none" before)
  hookStrategies,     \* React state strategies of useStrategies
  isLoading,          \* React state isLoading of useStrategies
  pending,            \* the requests of useStrategies that await their response
  isLoadingPortfolio, \* React state isLoading of usePortfolio
  loads,              \* the GET /api/portfolio requests of the load effect in flight
  saves,              \* the POST /api/portfolio requests of the save effect in flight
  portfolioStore      \* data/portfolios/<userId>.json: user id -> portfolio

ledgerVars == <<user, portfolioRef, initialUsd, aliased, transactionLog,
                lastTransactionRef, nextCleanup>>

schedVars == <<mounted, strategy, cryptoData, lastExecution, lastExecutionTimeRef,
               storage, intervalRef, orders>>

cronVars == <<strategiesFile, portfolioFile, cron, consoleLog>>

signalVars == <<history, detector, verdict>>

hookVars == <<hookStrategies, isLoading, pending>>

syncVars == <<isLoadingPortfolio, loads, saves, portfolioStore>>

vars == <<now, ledgerVars, schedVars, cronVars, signalVars, hookVars, syncVars>>

\* ------------------------------------------------------------------------
\* Arithmetic helpers
\* ------------------------------------------------------------------------
Abs(x) == IF x < 0 THEN -x ELSE x

RECURSIVE Gcd(_, _)
Gcd(a, b) == IF b = 0 THEN a ELSE Gcd(b, a % b)

NonFinite == <<0, 0>>

\* the double n/d as a reduced fraction with positive denominator
Rat(n, d) ==
  IF d = 0 THEN NonFinite
  ELSE LET g == Gcd(Abs(n), Abs(d))
           s == IF d < 0 THEN -1 ELSE 1
       IN  <<s * (n \div g), s * (d \div g)>>

\* ------------------------------------------------------------------------
\* Portfolio ledger (usePortfolio)
\* ------------------------------------------------------------------------
UsdItem(amount, txs) ==
  [symbol |-> "USD", amount |-> amount, averagePrice |-> <<1, 1>>, transactions |-> txs]

INITIAL_PORTFOLIO == <<UsdItem(InitialUsdAmount, <<>>)>>

\* Array.prototype.findIndex by symbol; 0 stands for the code's -1
FindIndex(p, s) ==
  IF \E i \in 1..Len(p) : p[i].symbol = s
  THEN CHOOSE i \in 1..Len(p) : p[i].symbol = s /\ \A j \in 1..(i - 1) : p[j].symbol # s
  ELSE 0

\* portfolio.find(item => item.symbol === s)?.amount || 0
BalanceOf(p, s) == IF FindIndex(p, s) = 0 THEN 0 ELSE p[FindIndex(p, s)].amount

\* Array.prototype.splice(i, 1)
Splice(p, i) == [k \in 1..(Len(p) - 1) |-> IF k < i THEN p[k] ELSE p[k + 1]]

\* newAvgPrice = (currentAmount * currentAvgPrice + amount * price) / newTotalAmount
NewAvgPrice(currentAmount, currentAvgPrice, amount, price) ==
  IF currentAvgPrice = NonFinite THEN NonFinite
  ELSE Rat(currentAmount * currentAvgPrice[1] + amount * price * currentAvgPrice[2],
           currentAvgPrice[2] * (currentAmount + amount))

TransactionId(type, symbol, amount, price, t) == <<type, symbol, amount, price, t>>

LogPut(log, id, t, processed) ==
  {e \in log : e.id # id} \cup {[id |-> id, timestamp |-> t, processed |-> processed]}

LogProcessed(log, id) == \E e \in log : e.id = id /\ e.processed

\* a buy branch that takes a holding of amount 0 for an absent one
ApplyBuy_SkipsEmptyHolding(p, tx) ==
  LET usdIndex == FindIndex(p, "USD")
      assetIndex == FindIndex(p, tx.symbol)
      p1 == [p EXCEPT ![usdIndex].amount = @ - tx.amount * tx.price,
                      ![usdIndex].transactions = Append(@, tx)]
  IN  IF assetIndex = 0 \/ p1[assetIndex].amount = 0
      THEN Append(p1, [symbol |-> tx.symbol, amount |-> tx.amount,
                       averagePrice |-> <<tx.price, 1>>, transactions |-> <<tx>>])
      ELSE [p1 EXCEPT ![assetIndex].amount = p1[assetIndex].amount + tx.amount,
                      ![assetIndex].averagePrice =
                          NewAvgPrice(p1[assetIndex].amount, p1[assetIndex].averagePrice,
                                      tx.amount, tx.price),
                      ![assetIndex].transactions = Append(@, tx)]

\* the buy branch of executeOrder applied to the copied array
ApplyBuy(p, tx) ==
  LET usdIndex == FindIndex(p, "USD")
      assetIndex == FindIndex(p, tx.symbol)
      p1 == [p EXCEPT ![usdIndex].amount = @ - tx.amount * tx.price,
                      ![usdIndex].transactions = Append(@, tx)]
  IN  IF assetIndex = 0
      THEN Append(p1, [symbol |-> tx.symbol, amount |-> tx.amount,
                       averagePrice |-> <<tx.price, 1>>, transactions |-> <<tx>>])
      ELSE [p1 EXCEPT ![assetIndex].amount = p1[assetIndex].amount + tx.amount,
                      ![assetIndex].averagePrice =
                          NewAvgPrice(p1[assetIndex].amount, p1[assetIndex].averagePrice,
                                      tx.amount, tx.price),
                      ![assetIndex].transactions = Append(@, tx)]

\* the USD credit of the sell branch (done before the asset is looked at)
CreditUsd(p, tx) ==
  LET usdIndex == FindIndex(p, "USD")
  IN  [p EXCEPT ![usdIndex].amount = @ + tx.amount * tx.price,
                ![usdIndex].transactions = Append(@, tx)]

\* a sell branch that drops the holding, and its transactions, when all of
\* it is sold
ApplySellAsset_RemovesHolding(p, tx) ==
  LET assetIndex == FindIndex(p, tx.symbol)
  IN  IF p[assetIndex].amount = tx.amount
      THEN Splice(p, assetIndex)
      ELSE [p EXCEPT ![assetIndex].amount = @ - tx.amount,
                     ![assetIndex].transactions = Append(@, tx)]

\* the rest of the sell branch, for an asset that is present
ApplySellAsset(p, tx) ==
  LET assetIndex == FindIndex(p, tx.symbol)
  IN  IF p[assetIndex].amount = tx.amount
      THEN Append(Splice(p, assetIndex),
                  [symbol |-> tx.symbol, amount |-> 0, averagePrice |-> <<0, 1>>,
                   transactions |-> Append(p[assetIndex].transactions, tx)])
      ELSE [p EXCEPT ![assetIndex].amount = @ - tx.amount,
                     ![assetIndex].transactions = Append(@, tx)]

UsdOf(p) == p[FindIndex(p, "USD")]

\* what the INITIAL_PORTFOLIO object holds after the portfolio became p
InitialUsdAfter(p) ==
  IF aliased THEN [amount |-> UsdOf(p).amount, transactions |-> UsdOf(p).transactions]
  ELSE initialUsd

AppliedCount == Len(UsdOf(portfolioRef).transactions)

\* executeOrder without the minimum time between transactions
executeOrder_NoMinimumGap(type, symbol, amount, price) ==
  /\ AppliedCount < MaxTx
  /\ Cardinality(transactionLog) < MaxTx
  /\ UNCHANGED <<now, user, aliased, nextCleanup, schedVars, cronVars, signalVars, hookVars, syncVars>>
  /\ IF user = NoUser
     THEN UNCHANGED <<portfolioRef, initialUsd, transactionLog, lastTransactionRef>>
     ELSE LET usdBalance == BalanceOf(portfolioRef, "USD")
              cryptoBalance == BalanceOf(portfolioRef, symbol)
              totalCost == amount * price
              transactionId == TransactionId(type, symbol, amount, price, now)
              tx == [type |-> type, symbol |-> symbol, amount |-> amount,
                     price |-> price, timestamp |-> now]
              usdIndex == FindIndex(portfolioRef, "USD")
              assetIndex == FindIndex(portfolioRef, symbol)
          IN  IF type = "buy" /\ totalCost > usdBalance
              THEN UNCHANGED <<portfolioRef, initialUsd, transactionLog, lastTransactionRef>>
              ELSE IF type = "sell" /\ amount > cryptoBalance
              THEN UNCHANGED <<portfolioRef, initialUsd, transactionLog, lastTransactionRef>>
              ELSE IF LogProcessed(transactionLog, transactionId)
              THEN UNCHANGED <<portfolioRef, initialUsd, transactionLog, lastTransactionRef>>
              ELSE /\ lastTransactionRef' = now
                   /\ IF usdIndex = 0
                      THEN \* currentPortfolio[-1].amount throws before any write
                           /\ transactionLog' = {e \in transactionLog : e.id # transactionId}
                           /\ UNCHANGED <<portfolioRef, initialUsd>>
                      ELSE IF type = "buy"
                      THEN /\ portfolioRef' = ApplyBuy(portfolioRef, tx)
                           /\ initialUsd' = InitialUsdAfter(ApplyBuy(portfolioRef, tx))
                           /\ transactionLog' = LogPut(transactionLog, transactionId, now, TRUE)
                      ELSE IF assetIndex = 0
                      THEN \* the USD item is written in place, then
                           \* currentPortfolio[-1].amount throws; the catch block
                           \* only deletes the log entry
                           /\ portfolioRef' = CreditUsd(portfolioRef, tx)
                           /\ initialUsd' = InitialUsdAfter(CreditUsd(portfolioRef, tx))
                           /\ transactionLog' = {e \in transactionLog : e.id # transactionId}
                      ELSE /\ portfolioRef' = ApplySellAsset(CreditUsd(portfolioRef, tx), tx)
                           /\ initialUsd' = InitialUsdAfter(CreditUsd(portfolioRef, tx))
                           /\ transactionLog' = LogPut(transactionLog, transactionId, now, TRUE)

executeOrder(type, symbol, amount, price) ==
  /\ AppliedCount < MaxTx
  /\ Cardinality(transactionLog) < MaxTx
  /\ UNCHANGED <<now, user, aliased, nextCleanup, schedVars, cronVars, signalVars, hookVars, syncVars>>
  /\ IF user = NoUser
     THEN UNCHANGED <<portfolioRef, initialUsd, transactionLog, lastTransactionRef>>
     ELSE IF now - lastTransactionRef < MinTransactionGapMs
     THEN UNCHANGED <<portfolioRef, initialUsd, transactionLog, lastTransactionRef>>
     ELSE LET usdBalance == BalanceOf(portfolioRef, "USD")
              cryptoBalance == BalanceOf(portfolioRef, symbol)
              totalCost == amount * price
              transactionId == TransactionId(type, symbol, amount, price, now)
              tx == [type |-> type, symbol |-> symbol, amount |-> amount,
                     price |-> price, timestamp |-> now]
              usdIndex == FindIndex(portfolioRef, "USD")
              assetIndex == FindIndex(portfolioRef, symbol)
          IN  IF type = "buy" /\ totalCost > usdBalance
              THEN UNCHANGED <<portfolioRef, initialUsd, transactionLog, lastTransactionRef>>
              ELSE IF type = "sell" /\ amount > cryptoBalance
              THEN UNCHANGED <<portfolioRef, initialUsd, transactionLog, lastTransactionRef>>
              ELSE IF LogProcessed(transactionLog, transactionId)
              THEN UNCHANGED <<portfolioRef, initialUsd, transactionLog, lastTransactionRef>>
              ELSE /\ lastTransactionRef' = now
                   /\ IF usdIndex = 0
                      THEN \* currentPortfolio[-1].amount throws before any write
                           /\ transactionLog' = {e \in transactionLog : e.id # transactionId}
                           /\ UNCHANGED <<portfolioRef, initialUsd>>
                      ELSE IF type = "buy"
                      THEN /\ portfolioRef' = ApplyBuy(portfolioRef, tx)
                           /\ initialUsd' = InitialUsdAfter(ApplyBuy(portfolioRef, tx))
                           /\ transactionLog' = LogPut(transactionLog, transactionId, now, TRUE)
                      ELSE IF assetIndex = 0
                      THEN \* the USD item is written in place, then
                           \* currentPortfolio[-1].amount throws; the catch block
                           \* only deletes the log entry
                           /\ portfolioRef' = CreditUsd(portfolioRef, tx)
                           /\ initialUsd' = InitialUsdAfter(CreditUsd(portfolioRef, tx))
                           /\ transactionLog' = {e \in transactionLog : e.id # transactionId}
                      ELSE /\ portfolioRef' = ApplySellAsset(CreditUsd(portfolioRef, tx), tx)
                           /\ initialUsd' = InitialUsdAfter(CreditUsd(portfolioRef, tx))
                           /\ transactionLog' = LogPut(transactionLog, transactionId, now, TRUE)

\* how far a call of executeOrder gets in the current state: the early
\* return it takes, or "processed" when it reaches the try block
OrderOutcome(type, symbol, amount, price) ==
  IF user = NoUser THEN "no user"
  ELSE IF now - lastTransactionRef < MinTransactionGapMs THEN "too soon"
  ELSE IF type = "buy" /\ amount * price > BalanceOf(portfolioRef, "USD")
  THEN "insufficient funds"
  ELSE IF type = "sell" /\ amount > BalanceOf(portfolioRef, symbol)
  THEN "insufficient assets"
  ELSE IF LogProcessed(transactionLog, TransactionId(type, symbol, amount, price, now))
  THEN "already processed"
  ELSE "processed"

ExecuteOrder ==
  \E type \in Types, symbol \in Symbols, amount \in Amounts, price \in Prices :
    executeOrder(type, symbol, amount, price)

\* resetPortfolio: the state and the ref become the INITIAL_PORTFOLIO array itself
resetPortfolio ==
  /\ user # NoUser
  /\ portfolioRef' = <<UsdItem(initialUsd.amount, initialUsd.transactions)>>
  /\ aliased' = TRUE
  /\ UNCHANGED <<now, user, initialUsd, transactionLog, lastTransactionRef, nextCleanup,
                 schedVars, cronVars, signalVars, hookVars, syncVars>>

\* the periodic cleanup of transactionLog
cleanup ==
  /\ now = nextCleanup
  /\ transactionLog' = {e \in transactionLog : ~(now - e.timestamp > TransactionRetentionMs)}
  /\ nextCleanup' = nextCleanup + CleanupIntervalMs
  /\ UNCHANGED <<now, user, portfolioRef, initialUsd, aliased, lastTransactionRef,
                 schedVars, cronVars, signalVars, hookVars, syncVars>>

\* time passes; a due timer fires before the clock moves on
AdvanceLedger ==
  \E d \in TimeSteps :
    /\ now + d <= MaxTime
    /\ now < nextCleanup
    /\ now + d <= nextCleanup
    /\ now' = now + d
    /\ UNCHANGED <<ledgerVars, schedVars, cronVars, signalVars, hookVars, syncVars>>

\* a quarter of a second passes
AdvanceQuarter ==
  /\ now + QuarterMs <= MaxTime
  /\ now + QuarterMs <= nextCleanup
  /\ now' = now + QuarterMs
  /\ UNCHANGED <<ledgerVars, schedVars, cronVars, signalVars, hookVars, syncVars>>

\* ------------------------------------------------------------------------
\* Rationals (doubles that are not integers)
\* ------------------------------------------------------------------------
Num(n) == <<n, 1>>

\* a / b
RatDiv(a, b) ==
  IF a = NonFinite \/ b = NonFinite THEN NonFinite ELSE Rat(a[1] * b[2], a[2] * b[1])

\* a < b; every comparison with a non-finite (NaN) operand is false
RatLess(a, b) ==
  a # NonFinite /\ b # NonFinite /\ a[1] * b[2] < b[1] * a[2]

RatLeq(a, b) ==
  a # NonFinite /\ b # NonFinite /\ a[1] * b[2] <= b[1] * a[2]

Max(a, b) == IF a >= b THEN a ELSE b

RECURSIVE Sum(_)
Sum(q) == IF q = <<>> THEN 0 ELSE Head(q) + Sum(Tail(q))

\* Array.prototype.slice(-n), n >= 1
LastN(q, n) == IF Len(q) <= n THEN q ELSE SubSeq(q, Len(q) - n + 1, Len(q))

\* Array.prototype.slice(0, n)
FirstN(q, n) == IF Len(q) <= n THEN q ELSE SubSeq(q, 1, n)

\* ------------------------------------------------------------------------
\* The transaction history of the Portfolio component
\* ------------------------------------------------------------------------
HistoryRows == 10

\* portfolio.flatMap(item => item.transactions)
RECURSIVE FlatTransactions(_)
FlatTransactions(p) ==
  IF p = <<>> THEN <<>> ELSE Head(p).transactions \o FlatTransactions(Tail(p))

\* the position of tx in a list sorted by most recent first: after the
\* entries that are not older (Array.prototype.sort is stable)
RECURSIVE InsertByRecency(_, _)
InsertByRecency(sorted, tx) ==
  IF sorted = <<>> THEN <<tx>>
  ELSE IF Head(sorted).timestamp >= tx.timestamp
       THEN <<Head(sorted)>> \o InsertByRecency(Tail(sorted), tx)
       ELSE <<tx>> \o sorted

\* .sort((a, b) => time(b) - time(a))
RECURSIVE SortByRecency(_)
SortByRecency(q) ==
  IF q = <<>> THEN <<>>
  ELSE InsertByRecency(SortByRecency(SubSeq(q, 1, Len(q) - 1)), q[Len(q)])

\* the predicate of the findIndex call of the filter
SimilarTransaction(t, transaction) ==
  /\ t.type = transaction.type
  /\ t.symbol = transaction.symbol
  /\ t.amount = transaction.amount
  /\ t.price = transaction.price
  /\ Abs(t.timestamp - transaction.timestamp) < 1000

\* .filter((transaction, index, self) => index === self.findIndex(similar))
Deduplicated(self) ==
  LET keep(index) ==
        index = CHOOSE k \in 1..Len(self) :
                  /\ SimilarTransaction(self[k], self[index])
                  /\ \A m \in 1..(k - 1) : ~SimilarTransaction(self[m], self[index])
      RECURSIVE Kept(_)
      Kept(index) ==
        IF index > Len(self) THEN <<>>
        ELSE (IF keep(index) THEN <<self[index]>> ELSE <<>>) \o Kept(index + 1)
  IN  Kept(1)

\* the rows of the Transaction History table
TransactionHistory(p) ==
  FirstN(Deduplicated(SortByRecency(FlatTransactions(p))), HistoryRows)

\* ------------------------------------------------------------------------
\* Strategy scheduler (useStrategyManager)
\* ------------------------------------------------------------------------
StrategyId == "s1"

\* a strategy is a record of the fields of all three config types; interval
\* is config.interval (hours) in thousandths of an hour
MkStrategy(type, enabled, symbol, amount, interval, shortPeriod, longPeriod) ==
  [id |-> StrategyId, type |-> type, enabled |-> enabled, symbol |-> symbol,
   amount |-> amount, interval |-> interval,
   shortPeriod |-> shortPeriod, longPeriod |-> longPeriod,
   period |-> 2, overbought |-> 70, oversold |-> 30]

\* strategy === null
NoStrategy == [MkStrategy("null", FALSE, "", Num(0), 0, 0, 0) EXCEPT !.id = ""]

Crypto(id, symbol, currentPrice, sparkline) ==
  [id |-> id, symbol |-> symbol, currentPrice |-> currentPrice, sparkline |-> sparkline]

\* cryptoData.find(c => c.id === symbol): index of the first match, 0 if none
FindCrypto(data, id) ==
  IF \E i \in 1..Len(data) : data[i].id = id
  THEN CHOOSE i \in 1..Len(data) : data[i].id = id /\ \A j \in 1..(i - 1) : data[j].id # id
  ELSE 0

\* cryptoData.filter(c => c.id === symbol).map(c => c.currentPrice)
RECURSIVE PricesOf(_, _)
PricesOf(data, id) ==
  IF data = <<>> THEN <<>>
  ELSE IF Head(data).id = id
       THEN <<Head(data).currentPrice>> \o PricesOf(Tail(data), id)
       ELSE PricesOf(Tail(data), id)

\* new Date(t).toISOString() and new Date(str).getTime()
ToISOString(t) == [iso |-> t]
NoTime == [iso |-> 0]
GetTime(str) == str.iso

\* the stored item: absent, text that is not JSON, or a JSON object;
\* writable is FALSE when localStorage.setItem throws
NoStorage == [kind |-> "null", times |-> NoTime, writable |-> TRUE]
InvalidStorage == [kind |-> "invalid json", times |-> NoTime, writable |-> TRUE]
FullStorage == [kind |-> "null", times |-> NoTime, writable |-> FALSE]
StoredTimes(times) == [kind |-> "json", times |-> times, writable |-> TRUE]

\* getStoredExecutionTimes: JSON.parse of the stored item, {} when it is
\* absent or cannot be parsed
getStoredExecutionTimes(st) ==
  IF st.kind = "json" THEN st.times ELSE NoTime

\* saveExecutionTimes: JSON.stringify into the stored item; a throw of
\* setItem is caught and the item stays as it was
saveExecutionTimes(st, times) ==
  IF st.writable THEN StoredTimes(times) ELSE st

NoTimer == [armed |-> FALSE, due |-> 0]

HourMs == 3600
DcaMinIntervalMs == 30000
SignalIntervalMs == 300000
DcaCheckIntervalMs == 10000
SignalCheckIntervalMs == 300000

\* the strategies the user may have configured
StrategyChoices ==
  {MkStrategy("DCA", e, "bitcoin", Num(100), i, 0, 0) : e \in BOOLEAN, i \in {5, 10}}
  \cup {MkStrategy("DCA", TRUE, "bitcoin", a, 5, 0, 0) : a \in {Num(0), NonFinite}}
  \cup {MkStrategy("MOVING_AVERAGE", e, "bitcoin", Num(100), 0, 1, 2) : e \in BOOLEAN}
  \cup {MkStrategy("RSI", e, "bitcoin", Num(100), 0, 0, 0) : e \in BOOLEAN}

\* the price snapshots the price source may deliver
CryptoSnapshots ==
  { <<>>,
    <<Crypto("ethereum", "ETH", 3000, <<>>)>>,
    <<Crypto("bitcoin", "BTC", 50000, <<>>), Crypto("ethereum", "ETH", 3000, <<>>)>>,
    <<Crypto("bitcoin", "BTC", 25000, <<40000, 20000>>)>>,
    <<Crypto("bitcoin", "BTC", 50000, <<40000>>)>> }

\* RSI strategies (period 2, overbought 70, oversold 30)
RsiChoices ==
  {MkStrategy("RSI", e, "bitcoin", Num(100), 0, 0, 0) : e \in BOOLEAN}

\* a price list with one entry per price point of the asset, oldest first
Series(prices) ==
  [k \in 1..Len(prices) |-> Crypto("bitcoin", "BTC", prices[k], <<>>)]

SeriesSnapshots ==
  {Series(q) : q \in {<<30, 20, 10>>, <<10, 20, 30>>, <<20, 30, 20>>, <<20, 20, 20>>,
                      <<20, 10>>}}

\* what localStorage may hold when the page loads
StorageChoices ==
  {NoStorage, InvalidStorage, FullStorage,
   StoredTimes(ToISOString(SchedStartTime - 20000))}

\* the mutable state the hook's functions read and write
SchedState ==
  [le |-> lastExecution, ref |-> lastExecutionTimeRef, storage |-> storage,
   timer |-> intervalRef, orders |-> orders]

Order(type, symbol, amount, price, t) ==
  [type |-> type, symbol |-> symbol, amount |-> amount, price |-> price, at |-> t]

\* amount <= 0 on a double that may be undefined / NaN
AmountLeqZero(amount) == amount # NonFinite /\ amount[1] <= 0

\* setLastExecution(prev => ({...prev, [id]: ISO(now)})), saved to storage
\* either in the updater or by the effect on [lastExecution], and
\* lastExecutionTimeRef.current[id] = Date.now()
RecordExecution(S, t) ==
  [S EXCEPT !.le = ToISOString(t),
            !.storage = saveExecutionTimes(@, ToISOString(t)),
            !.ref.time = t]

\* executeDCAStrategy passing the USD amount as the quantity
executeDCAStrategy_NoConversion(S, config, data, t) ==
  LET i == FindCrypto(data, config.symbol)
  IN  IF i = 0 \/ AmountLeqZero(config.amount) THEN S
      ELSE LET cryptoInfo == data[i]
               S1 == [S EXCEPT !.orders = Append(@, Order("buy", cryptoInfo.symbol,
                                               config.amount, cryptoInfo.currentPrice, t))]
           IN  RecordExecution(S1, t)

\* executeDCAStrategy recording the execution before looking up the price
executeDCAStrategy_RecordsFirst(S, config, data, t) ==
  LET i == FindCrypto(data, config.symbol)
  IN  IF i = 0 \/ AmountLeqZero(config.amount) THEN RecordExecution(S, t)
      ELSE LET cryptoInfo == data[i]
               cryptoAmount == RatDiv(config.amount, Num(cryptoInfo.currentPrice))
               S1 == [S EXCEPT !.orders = Append(@, Order("buy", cryptoInfo.symbol,
                                               cryptoAmount, cryptoInfo.currentPrice, t))]
           IN  RecordExecution(S1, t)

\* executeDCAStrategy writing the execution time to storage, uncaught, before
\* it submits the order
executeDCAStrategy_SavesFirst(S, config, data, t) ==
  LET i == FindCrypto(data, config.symbol)
  IN  IF i = 0 \/ AmountLeqZero(config.amount) \/ ~S.storage.writable THEN S
      ELSE LET cryptoInfo == data[i]
               cryptoAmount == RatDiv(config.amount, Num(cryptoInfo.currentPrice))
               S1 == [S EXCEPT !.orders = Append(@, Order("buy", cryptoInfo.symbol,
                                               cryptoAmount, cryptoInfo.currentPrice, t))]
           IN  RecordExecution(S1, t)

executeDCAStrategy(S, config, data, t) ==
  LET i == FindCrypto(data, config.symbol)
  IN  IF i = 0 \/ AmountLeqZero(config.amount) THEN S
      ELSE LET cryptoInfo == data[i]
               cryptoAmount == RatDiv(config.amount, Num(cryptoInfo.currentPrice))
               S1 == [S EXCEPT !.orders = Append(@, Order("buy", cryptoInfo.symbol,
                                               cryptoAmount, cryptoInfo.currentPrice, t))]
           IN  RecordExecution(S1, t)

\* getHistoricalPrices(symbol, period, cryptoData)
RECURSIVE PadTo(_, _, _)
PadTo(prices, period, fallback) ==
  IF Len(prices) >= period THEN prices
  ELSE PadTo(Append(prices, IF prices[Len(prices)] # 0 THEN prices[Len(prices)] ELSE fallback),
             period, fallback)

getHistoricalPrices(symbol, period, data) ==
  LET i == FindCrypto(data, symbol)
  IN  IF i = 0 THEN <<>>
      ELSE FirstN(PadTo(<<data[i].currentPrice>> \o data[i].sparkline, period,
                        data[i].currentPrice), period)

\* getCurrentPrice: crypto?.currentPrice || 0
getCurrentPrice(symbol, data) ==
  IF FindCrypto(data, symbol) = 0 THEN 0 ELSE data[FindCrypto(data, symbol)].currentPrice

\* the signal of executeMAStrategy for the price list it works on
MASignal(prices, shortPeriod, longPeriod) ==
  LET shortMA == Rat(Sum(LastN(prices, shortPeriod)), shortPeriod)
      longMA == Rat(Sum(prices), longPeriod)
      hasLast == Len(prices) >= 2
      lastPrice == IF hasLast THEN Num(prices[Len(prices) - 1]) ELSE NonFinite
  IN  IF RatLess(longMA, shortMA) /\ RatLeq(lastPrice, longMA) THEN "BUY"
      ELSE IF RatLess(shortMA, longMA) /\ RatLeq(longMA, lastPrice) THEN "SELL"
      ELSE "HOLD"

executeMAStrategy(S, config, data, t) ==
  LET i == FindCrypto(data, config.symbol)
      prices == getHistoricalPrices(config.symbol, config.longPeriod, data)
      currentPrice == getCurrentPrice(config.symbol, data)
      signal == MASignal(prices, config.shortPeriod, config.longPeriod)
  IN  IF i = 0 THEN S
      ELSE IF Len(prices) < config.longPeriod THEN S
      ELSE IF currentPrice = 0 THEN S
      ELSE IF signal = "HOLD" THEN S
      ELSE LET cryptoAmount == RatDiv(config.amount, Num(currentPrice))
               S1 == [S EXCEPT !.orders = Append(@, Order(IF signal = "BUY" THEN "buy" ELSE "sell",
                                               data[i].symbol, cryptoAmount, currentPrice, t))]
           IN  RecordExecution(S1, t)

\* the zone of executeRSIStrategy: 1 overbought, -1 oversold, 0 otherwise.
\* rsi = 100 - 100 / (1 + avgGain / avgLoss); with G and L the sums of the
\* gains and of the losses, rsi = 100 * G / (G + L) when L > 0, 100 when
\* L = 0 < G, and NaN when G = L = 0.
RSIOf(recentPrices, period) ==
  LET changes == [k \in 1..(Len(recentPrices) - 1) |-> recentPrices[k + 1] - recentPrices[k]]
      G == Sum([k \in 1..Len(changes) |-> IF changes[k] > 0 THEN changes[k] ELSE 0])
      L == Abs(Sum([k \in 1..Len(changes) |-> IF changes[k] < 0 THEN changes[k] ELSE 0]))
  IN  IF period = 0 \/ (G = 0 /\ L = 0) THEN NonFinite
      ELSE Rat(100 * G, G + L)

\* a zone test with the two thresholds taken for each other
RSIState_Swapped(recentPrices, config) ==
  LET rsi == RSIOf(recentPrices, config.period)
  IN  IF RatLeq(Num(config.overbought), rsi) THEN -1
      ELSE IF RatLeq(rsi, Num(config.oversold)) THEN 1
      ELSE 0

RSIState(recentPrices, config) ==
  LET rsi == RSIOf(recentPrices, config.period)
  IN  IF RatLeq(Num(config.overbought), rsi) THEN 1
      ELSE IF RatLeq(rsi, Num(config.oversold)) THEN -1
      ELSE 0

\* an RSI evaluation that orders whenever the RSI is in a zone
executeRSIStrategy_LevelTriggered(S, config, data, t) ==
  LET i == FindCrypto(data, config.symbol)
      recentPrices == LastN(PricesOf(data, config.symbol), config.period + 1)
      currentState == RSIState(recentPrices, config)
      S1 == [S EXCEPT !.ref.rsi = currentState]
  IN  IF i = 0 THEN S
      ELSE IF Len(recentPrices) < config.period + 1 THEN S
      ELSE LET cryptoAmount == RatDiv(config.amount, Num(data[i].currentPrice))
               S2 == IF currentState = 0 THEN S1
                     ELSE [S1 EXCEPT !.orders = Append(@, Order(IF currentState = -1 THEN "buy" ELSE "sell",
                                                data[i].symbol, cryptoAmount, data[i].currentPrice, t))]
           IN  RecordExecution(S2, t)

executeRSIStrategy(S, config, data, t) ==
  LET i == FindCrypto(data, config.symbol)
      recentPrices == LastN(PricesOf(data, config.symbol), config.period + 1)
      previousState == S.ref.rsi
      currentState == RSIState(recentPrices, config)
      S1 == [S EXCEPT !.ref.rsi = currentState]
  IN  IF i = 0 THEN S
      ELSE IF Len(recentPrices) < config.period + 1 THEN S
      ELSE IF previousState = currentState THEN S1
      ELSE LET cryptoAmount == RatDiv(config.amount, Num(data[i].currentPrice))
               S2 == IF currentState = 0 THEN S1
                     ELSE [S1 EXCEPT !.orders = Append(@, Order(IF currentState = -1 THEN "buy" ELSE "sell",
                                                data[i].symbol, cryptoAmount, data[i].currentPrice, t))]
           IN  RecordExecution(S2, t)

\* the execution interval of shouldExecuteStrategy
ExecutionInterval(config) ==
  IF config.type = "DCA" THEN Max(config.interval * HourMs, DcaMinIntervalMs)
  ELSE SignalIntervalMs

\* shouldExecuteStrategy comparing with the check interval of the timer
shouldExecuteStrategy_CheckInterval(S, strat, t) ==
  IF strat.id = "" THEN FALSE
  ELSE IF strat.type = "DCA" /\ S.le = NoTime THEN TRUE
  ELSE t - S.ref.time >= DcaCheckIntervalMs

shouldExecuteStrategy(S, strat, t) ==
  IF strat.id = "" THEN FALSE
  ELSE IF strat.type = "DCA" /\ S.le = NoTime THEN TRUE
  ELSE t - S.ref.time >= ExecutionInterval(strat)

\* the executeStrategy closure of the scheduling effect
executeStrategy(S, strat, data, t) ==
  LET isFirstExecution == strat.type = "DCA" /\ S.le = NoTime
  IN  IF ~isFirstExecution /\ ~shouldExecuteStrategy(S, strat, t) THEN S
      ELSE IF Len(S.orders) >= MaxOrders THEN S
      ELSE CASE strat.type = "DCA" -> executeDCAStrategy(S, strat, data, t)
             [] strat.type = "MOVING_AVERAGE" -> executeMAStrategy(S, strat, data, t)
             [] strat.type = "RSI" -> executeRSIStrategy(S, strat, data, t)
             [] OTHER -> S

CheckInterval(strat) ==
  IF strat.type = "DCA" THEN DcaCheckIntervalMs ELSE SignalCheckIntervalMs

\* the baseline pass of the scheduling effect for a MOVING_AVERAGE strategy
MABaselinePrices(strat, data) == LastN(PricesOf(data, strat.symbol), strat.longPeriod)

MABaselineApplies(S, strat, data) ==
  /\ strat.type = "MOVING_AVERAGE"
  /\ FindCrypto(data, strat.symbol) # 0
  /\ S.ref.ma = 0
  /\ Len(MABaselinePrices(strat, data)) >= strat.longPeriod

MABaseline(S, strat, data, t) ==
  LET recentPrices == MABaselinePrices(strat, data)
      shortMA == Rat(Sum(LastN(recentPrices, strat.shortPeriod)), strat.shortPeriod)
      longMA == Rat(Sum(recentPrices), strat.longPeriod)
  IN  [S EXCEPT !.ref.ma = IF RatLess(longMA, shortMA) THEN 1 ELSE -1,
                !.ref.time = t,
                !.le = ToISOString(t),
                !.storage = saveExecutionTimes(@, ToISOString(t))]

\* the scheduling effect without the test of config.enabled
SchedulingEffect_IgnoresEnabled(S, strat, data, t) ==
  IF Len(data) = 0
  THEN [S EXCEPT !.timer = NoTimer]
  ELSE IF MABaselineApplies(S, strat, data)
  THEN [MABaseline(S, strat, data, t) EXCEPT !.timer = NoTimer]
  ELSE [executeStrategy(S, strat, data, t) EXCEPT
           !.timer = [armed |-> TRUE, due |-> t + CheckInterval(strat)]]

\* a scheduling effect that leaves the armed timer alone when the strategy
\* is disabled or null
SchedulingEffect_KeepsTimer(S, strat, data, t) ==
  IF ~strat.enabled \/ Len(data) = 0
  THEN S
  ELSE IF MABaselineApplies(S, strat, data)
  THEN [MABaseline(S, strat, data, t) EXCEPT !.timer = NoTimer]
  ELSE [executeStrategy(S, strat, data, t) EXCEPT
           !.timer = [armed |-> TRUE, due |-> t + CheckInterval(strat)]]

\* one run of the scheduling effect (its cleanup included)
SchedulingEffect(S, strat, data, t) ==
  IF ~strat.enabled \/ Len(data) = 0
  THEN [S EXCEPT !.timer = NoTimer]
  ELSE IF MABaselineApplies(S, strat, data)
  THEN [MABaseline(S, strat, data, t) EXCEPT !.timer = NoTimer]
  ELSE [executeStrategy(S, strat, data, t) EXCEPT
           !.timer = [armed |-> TRUE, due |-> t + CheckInterval(strat)]]

\* a render runs the scheduling effect; an execution or a baseline pass sets
\* the lastExecution state to a new object, which is rendered in turn
RECURSIVE Render(_, _, _, _)
Render(S, strat, data, t) ==
  LET S1 == SchedulingEffect(S, strat, data, t)
      baseline == strat.enabled /\ Len(data) > 0 /\ MABaselineApplies(S, strat, data)
  IN  IF S1.le = S.le /\ ~baseline THEN S1 ELSE Render(S1, strat, data, t)

SetSched(S) ==
  /\ lastExecution' = S.le
  /\ lastExecutionTimeRef' = S.ref
  /\ storage' = S.storage
  /\ intervalRef' = S.timer
  /\ orders' = S.orders

\* first render of the hook: state and ref are read from storage, the effect
\* on [lastExecution] writes the state back, the scheduling effect runs
Mount ==
  /\ ~mounted
  /\ mounted' = TRUE
  /\ LET stored == getStoredExecutionTimes(storage)
         S0 == [SchedState EXCEPT !.le = stored,
                                  !.ref.time = GetTime(stored),
                                  !.storage = saveExecutionTimes(@, stored)]
     IN  SetSched(Render(S0, strategy, cryptoData, now))
  /\ UNCHANGED <<now, strategy, cryptoData, ledgerVars, cronVars, signalVars, hookVars, syncVars>>

\* the parent passes a new price snapshot
PricesArrive(data) ==
  /\ mounted
  /\ cryptoData' = data
  /\ SetSched(Render(SchedState, strategy, data, now))
  /\ UNCHANGED <<now, mounted, strategy, ledgerVars, cronVars, signalVars, hookVars, syncVars>>

PriceUpdate == \E data \in CryptoSnapshots : PricesArrive(data)

\* the parent passes a list that holds a series of price points of the asset
SeriesUpdate == \E data \in SeriesSnapshots : PricesArrive(data)

\* the user enables or disables the strategy
ToggleEnabled ==
  /\ mounted
  /\ strategy # NoStrategy
  /\ strategy' = [strategy EXCEPT !.enabled = ~@]
  /\ SetSched(Render(SchedState, strategy', cryptoData, now))
  /\ UNCHANGED <<now, mounted, cryptoData, ledgerVars, cronVars, signalVars, hookVars, syncVars>>

\* the user deletes the strategy: the prop becomes null
DeleteStrategy ==
  /\ mounted
  /\ strategy # NoStrategy
  /\ strategy' = NoStrategy
  /\ SetSched(Render(SchedState, NoStrategy, cryptoData, now))
  /\ UNCHANGED <<now, mounted, cryptoData, ledgerVars, cronVars, signalVars, hookVars, syncVars>>

\* the callback of a timer armed with setTimeout: it fires once
Tick_OneShot ==
  /\ mounted
  /\ intervalRef.armed
  /\ now = intervalRef.due
  /\ LET S0 == [SchedState EXCEPT !.timer = NoTimer]
         S1 == executeStrategy(S0, strategy, cryptoData, now)
     IN  SetSched(IF S1.le = S0.le THEN S1 ELSE Render(S1, strategy, cryptoData, now))
  /\ UNCHANGED <<now, mounted, strategy, cryptoData, ledgerVars, cronVars, signalVars, hookVars, syncVars>>

\* the setInterval callback fires
Tick ==
  /\ mounted
  /\ intervalRef.armed
  /\ now = intervalRef.due
  /\ LET S0 == [SchedState EXCEPT !.timer.due = @ + CheckInterval(strategy)]
         S1 == executeStrategy(S0, strategy, cryptoData, now)
     IN  SetSched(IF S1.le = S0.le THEN S1 ELSE Render(S1, strategy, cryptoData, now))
  /\ UNCHANGED <<now, mounted, strategy, cryptoData, ledgerVars, cronVars, signalVars, hookVars, syncVars>>

\* time passes; a due timer fires before the clock moves on
AdvanceSched ==
  \E d \in SchedTimeSteps :
    /\ mounted
    /\ now + d <= MaxSchedTime
    /\ intervalRef.armed => now + d <= intervalRef.due
    /\ now' = now + d
    /\ UNCHANGED <<ledgerVars, schedVars, cronVars, signalVars, hookVars, syncVars>>

\* time passes up to the next check of a signal strategy (5 minutes after
\* the timer was armed)
AdvanceToCheck ==
  /\ mounted
  /\ intervalRef.armed
  /\ intervalRef.due - now > DcaCheckIntervalMs
  /\ intervalRef.due <= MaxSignalTime
  /\ now' = intervalRef.due
  /\ UNCHANGED <<ledgerVars, schedVars, cronVars, signalVars, hookVars, syncVars>>

\* the user creates a strategy after a deletion
StrategyCreated(strat) ==
  /\ mounted
  /\ strategy = NoStrategy
  /\ strategy' = strat
  /\ SetSched(Render(SchedState, strat, cryptoData, now))
  /\ UNCHANGED <<now, mounted, cryptoData, ledgerVars, cronVars, signalVars, hookVars, syncVars>>

CreateStrategy == \E strat \in StrategyChoices : StrategyCreated(strat)

CreateRsiStrategy == \E strat \in RsiChoices : StrategyCreated(strat)

\* ------------------------------------------------------------------------
\* The server-side strategy service (cron route)
\* ------------------------------------------------------------------------
CronIds == {1, 2}

RatAdd(a, b) ==
  IF a = NonFinite \/ b = NonFinite THEN NonFinite
  ELSE Rat(a[1] * b[2] + b[1] * a[2], a[2] * b[2])

CronStrategy(id, enabled, symbol, amount, interval, lastExecuted) ==
  [id |-> id, type |-> "DCA", enabled |-> enabled, symbol |-> symbol,
   amount |-> amount, interval |-> interval, lastExecuted |-> lastExecuted]

Asset(symbol, quantity, averagePrice) ==
  [symbol |-> symbol, quantity |-> quantity, averagePrice |-> averagePrice]

Ticker(symbol, currentPrice) == [symbol |-> symbol, currentPrice |-> currentPrice]

\* the default portfolio readPortfolio creates
DefaultPortfolio == [exists |-> TRUE, assets |-> <<>>]
MissingPortfolio == [exists |-> FALSE, assets |-> <<>>]

CronIdle == [pc |-> "idle", strategies |-> <<>>, idx |-> 0, now |-> 0,
             portfolio |-> MissingPortfolio]

readPortfolio(file) == IF file.exists THEN file ELSE DefaultPortfolio

\* index of the first element of a sequence of records with the given
\* value in a field, 0 when there is none
RECURSIVE FindBy(_, _, _, _)
FindBy(q, field, value, k) ==
  IF k > Len(q) THEN 0
  ELSE IF q[k][field] = value THEN k
  ELSE FindBy(q, field, value, k + 1)

RECURSIVE FilterOut(_, _)
FilterOut(assets, symbol) ==
  IF assets = <<>> THEN <<>>
  ELSE IF Head(assets).symbol = symbol THEN FilterOut(Tail(assets), symbol)
  ELSE <<Head(assets)>> \o FilterOut(Tail(assets), symbol)

QuantityOf(assets, symbol) ==
  IF FindBy(assets, "symbol", symbol, 1) = 0 THEN Num(0)
  ELSE assets[FindBy(assets, "symbol", symbol, 1)].quantity

\* the due test of executeDCA
CronDue(strat, t) ==
  /\ strat.enabled
  /\ t - GetTime(strat.lastExecuted) >= Max(strat.interval * HourMs, DcaMinIntervalMs)

\* the loop of executeStrategies runs without suspension up to the first
\* strategy that is due: its index, 0 when the loop ends
RECURSIVE NextDue(_, _, _)
NextDue(strategies, k, t) ==
  IF k > Len(strategies) THEN 0
  ELSE IF CronDue(strategies[k], t) THEN k
  ELSE NextDue(strategies, k + 1, t)

\* executeDCA up to `await fetchInitialCryptoData()`
SuspendAtFetch(i, strategies, k, file) ==
  /\ cron' = [cron EXCEPT ![i] = [pc |-> "fetch", strategies |-> strategies, idx |-> k,
                                  now |-> now, portfolio |-> readPortfolio(file)]]
  /\ portfolioFile' = readPortfolio(file)

\* GET /api/cron/execute-strategies
executeStrategies(i) ==
  /\ cron[i].pc = "idle"
  /\ Len(consoleLog) < MaxCronLog
  /\ LET strategies == strategiesFile
         k == NextDue(strategies, 1, now)
     IN  IF k = 0 THEN UNCHANGED <<cron, portfolioFile>>
         ELSE SuspendAtFetch(i, strategies, k, portfolioFile)
  /\ UNCHANGED <<now, strategiesFile, consoleLog, ledgerVars, schedVars, signalVars, hookVars, syncVars>>

\* the portfolio executeDCA writes
UpdatedPortfolio(portfolio, symbol, quantity, currentPrice) ==
  [portfolio EXCEPT !.assets =
      FilterOut(@, symbol) \o
      <<Asset(symbol, RatAdd(QuantityOf(portfolio.assets, symbol), quantity), currentPrice)>>]

\* writeStrategies after strategies[index] = updatedStrategy
UpdatedStrategies(strategies, strat, t) ==
  LET index == FindBy(strategies, "id", strat.id, 1)
  IN  IF index = 0 THEN strategies
      ELSE [strategies EXCEPT ![index] = [strat EXCEPT !.lastExecuted = ToISOString(t)]]

\* fetchInitialCryptoData resolves: the rest of executeDCA, and the loop up
\* to its next suspension
fetchResolved(i) ==
  \E data \in CronMarkets :
    /\ cron[i].pc = "fetch"
    /\ LET c == cron[i]
           strat == c.strategies[c.idx]
           a == FindBy(data, "symbol", strat.symbol, 1)
           quantity == RatDiv(Num(strat.amount), Num(data[a].currentPrice))
           file == IF a = 0 THEN portfolioFile
                   ELSE UpdatedPortfolio(c.portfolio, strat.symbol, quantity, data[a].currentPrice)
           k == NextDue(c.strategies, c.idx + 1, now)
       IN  /\ IF a = 0 THEN UNCHANGED <<strategiesFile, consoleLog>>
              ELSE /\ strategiesFile' = UpdatedStrategies(strategiesFile, strat, c.now)
                   /\ consoleLog' = Append(consoleLog,
                          [id |-> strat.id, symbol |-> strat.symbol, quantity |-> quantity,
                           at |-> c.now])
           /\ IF k = 0 THEN cron' = [cron EXCEPT ![i] = CronIdle] /\ portfolioFile' = file
              ELSE SuspendAtFetch(i, c.strategies, k, file)
    /\ UNCHANGED <<now, ledgerVars, schedVars, signalVars, hookVars, syncVars>>

\* fetchInitialCryptoData rejects: the route answers 500
fetchRejected(i) ==
  /\ cron[i].pc = "fetch"
  /\ cron' = [cron EXCEPT ![i] = CronIdle]
  /\ UNCHANGED <<now, strategiesFile, portfolioFile, consoleLog, ledgerVars, schedVars, signalVars, hookVars, syncVars>>

\* POST /api/strategies: the strategy replaces the stored one of the same
\* symbol, or is added
PostedTo(file, strat) ==
  LET existingStrategyIndex == FindBy(file, "symbol", strat.symbol, 1)
  IN  IF existingStrategyIndex # 0
      THEN [file EXCEPT ![existingStrategyIndex] = strat]
      ELSE Append(file, strat)

\* DELETE /api/strategies: the strategies of the given id are filtered out
DeletedFrom(file, id) == SelectSeq(file, LAMBDA s : s.id # id)

\* the client saves a stored strategy with its enabled flag changed
StrategiesPOST ==
  \E k \in 1..Len(strategiesFile) :
    /\ strategiesFile' = PostedTo(strategiesFile, [strategiesFile[k] EXCEPT !.enabled = ~@])
    /\ UNCHANGED <<now, portfolioFile, cron, consoleLog, ledgerVars, schedVars, signalVars, hookVars, syncVars>>

\* the client deletes a stored strategy
StrategiesDELETE ==
  \E k \in 1..Len(strategiesFile) :
    /\ strategiesFile' = DeletedFrom(strategiesFile, strategiesFile[k].id)
    /\ UNCHANGED <<now, portfolioFile, cron, consoleLog, ledgerVars, schedVars, signalVars, hookVars, syncVars>>

AdvanceCron ==
  \E d \in CronTimeSteps :
    /\ now + d <= MaxCronTime
    /\ now' = now + d
    /\ UNCHANGED <<ledgerVars, schedVars, cronVars, signalVars, hookVars, syncVars>>

\* ------------------------------------------------------------------------
\* One evaluation of a signal strategy on a given price history
\* ------------------------------------------------------------------------
\* the price data of an asset whose history (oldest to newest) ends in its
\* current price: the 7 day sparkline and currentPrice
MarketOf(h) ==
  <<Crypto("bitcoin", "BTC", h[Len(h)], SubSeq(h, 1, Len(h) - 1))>>

\* the hook's mutable state before the strategy has run
FreshSchedState ==
  [le |-> NoTime, ref |-> [time |-> 0, ma |-> 0, rsi |-> 0], storage |-> NoStorage,
   timer |-> NoTimer, orders |-> <<>>]

\* the order an evaluation submitted, as a signal
SignalOf(S0, S1) ==
  IF Len(S1.orders) = Len(S0.orders) THEN "HOLD"
  ELSE IF S1.orders[Len(S1.orders)].type = "buy" THEN "BUY" ELSE "SELL"

HistoryPrices == {10, 20, 30}

Histories ==
  UNION {[1..n -> HistoryPrices] : n \in 3..MaxHistory}

Detectors ==
  {MkStrategy("MOVING_AVERAGE", TRUE, "bitcoin", Num(100), 0, sp, sp + 1) : sp \in 1..3}

\* executeMAStrategy runs on the price data
Evaluate ==
  /\ verdict = "none"
  /\ detector.type = "MOVING_AVERAGE"
  /\ verdict' = SignalOf(FreshSchedState,
                         executeMAStrategy(FreshSchedState, detector, MarketOf(history), now))
  /\ UNCHANGED <<now, history, detector, ledgerVars, schedVars, cronVars, hookVars, syncVars>>

\* the RSI test configuration: period 14, overbought 70, oversold 30
RsiPeriod == 14

RsiDetectors ==
  {[MkStrategy("RSI", TRUE, "bitcoin", Num(100), 0, 0, 0) EXCEPT !.period = RsiPeriod]}

\* the series that starts at a price and moves by the given changes
Walk(start, steps) ==
  [k \in 1..(Len(steps) + 1) |-> start + Sum(SubSeq(steps, 1, k - 1))]

\* changes of a series of RsiPeriod + 1 points: the first three vary, the
\* others repeat one size
StepSeqs ==
  {[k \in 1..RsiPeriod |-> IF k <= 3 THEN f[k] ELSE d] : f \in [1..3 -> {1, 2, 3}], d \in {1, 2}}

Negated(steps) == [k \in 1..Len(steps) |-> -steps[k]]

\* changes of +a and -a in turn, and some of both signs that do not repeat
MixedSeqs ==
  {[k \in 1..RsiPeriod |-> IF k % 2 = 1 THEN a ELSE -a] : a \in {-2, -1, 1, 2}}
  \cup {[k \in 1..RsiPeriod |-> IF k <= m THEN -2 ELSE 1] : m \in 1..4}

RsiHistories ==
  {Walk(100, st) : st \in StepSeqs \cup {Negated(q) : q \in StepSeqs} \cup MixedSeqs}

\* executeRSIStrategy runs on the series of price points
EvaluateRsi ==
  /\ verdict = "none"
  /\ detector.type = "RSI"
  /\ verdict' = SignalOf(FreshSchedState,
                         executeRSIStrategy(FreshSchedState, detector, Series(history), now))
  /\ UNCHANGED <<now, history, detector, ledgerVars, schedVars, cronVars, hookVars, syncVars>>

\* another series is evaluated
NewSeries ==
  \E h \in RsiHistories, d \in RsiDetectors :
    /\ verdict # "none"
    /\ history' = h
    /\ detector' = d
    /\ verdict' = "none"
    /\ UNCHANGED <<now, ledgerVars, schedVars, cronVars, hookVars, syncVars>>

\* another history or configuration is evaluated
NewHistory ==
  \E h \in Histories, d \in Detectors :
    /\ verdict # "none"
    /\ history' = h
    /\ detector' = d
    /\ verdict' = "none"
    /\ UNCHANGED <<now, ledgerVars, schedVars, cronVars, hookVars, syncVars>>

\* ------------------------------------------------------------------------
\* useStrategies (hooks/use-strategies.ts) and the /api/strategies routes
\* ------------------------------------------------------------------------
MaxList == 3
MaxPending == 2

HookIds == {"s1", "s2"}

\* the strategies the page may save: s1 trades BTC, s2 trades ETH
HookStrategy(id, enabled) ==
  CronStrategy(id, enabled, IF id = "s1" THEN "BTC" ELSE "ETH", 100, 5, NoTime)

HookStrategyChoices == {HookStrategy(id, e) : id \in HookIds, e \in BOOLEAN}

Request(op, strat) == [op |-> op, strategy |-> strat]

\* a fetch is sent and awaited
Send(req) ==
  /\ Cardinality(pending) < MaxPending
  /\ req \notin pending
  /\ pending' = pending \cup {req}
  /\ UNCHANGED <<now, hookStrategies, isLoading, ledgerVars, schedVars, cronVars, signalVars, syncVars>>

\* addStrategy up to `await fetch`
addStrategy == \E strat \in HookStrategyChoices : Send(Request("add", strat))

\* updateStrategy up to `await fetch`
updateStrategy == \E strat \in HookStrategyChoices : Send(Request("update", strat))

\* deleteStrategy up to `await fetch`; only the id is sent
deleteStrategy == \E id \in HookIds : Send(Request("delete", HookStrategy(id, FALSE)))

\* the state of the hook and of the server after a response
Answered(req, list, file) ==
  /\ req \in pending
  /\ pending' = pending \ {req}
  /\ hookStrategies' = list
  /\ strategiesFile' = file
  /\ UNCHANGED <<now, portfolioFile, cron, consoleLog, ledgerVars, schedVars, signalVars, syncVars>>

\* GET /api/strategies answers: setStrategies(data), isLoading false
fetchStrategiesResolved ==
  /\ isLoading
  /\ isLoading' = FALSE
  /\ Answered(Request("load", HookStrategy("s1", FALSE)), strategiesFile, strategiesFile)

\* GET /api/strategies fails: the list stays, isLoading false
fetchStrategiesRejected ==
  /\ isLoading
  /\ isLoading' = FALSE
  /\ Answered(Request("load", HookStrategy("s1", FALSE)), hookStrategies, strategiesFile)

\* POST answers the saved strategy: setStrategies(prev => [...prev, savedStrategy])
addStrategyResolved ==
  \E strat \in HookStrategyChoices :
    /\ Len(hookStrategies) < MaxList
    /\ Answered(Request("add", strat), Append(hookStrategies, strat),
                PostedTo(strategiesFile, strat))
    /\ UNCHANGED isLoading

\* an update that adds the strategy when the list has none of its id
updateStrategyResolved_Upsert ==
  \E strat \in HookStrategyChoices :
    /\ Len(hookStrategies) < MaxList
    /\ Answered(Request("update", strat),
                IF \E k \in 1..Len(hookStrategies) : hookStrategies[k].id = strat.id
                THEN [k \in 1..Len(hookStrategies) |->
                        IF hookStrategies[k].id = strat.id THEN strat ELSE hookStrategies[k]]
                ELSE Append(hookStrategies, strat),
                PostedTo(strategiesFile, strat))
    /\ UNCHANGED isLoading

\* POST answers the saved strategy:
\* setStrategies(prev => prev.map(s => s.id === strategy.id ? updatedStrategy : s))
updateStrategyResolved ==
  \E strat \in HookStrategyChoices :
    /\ Answered(Request("update", strat),
                [k \in 1..Len(hookStrategies) |->
                   IF hookStrategies[k].id = strat.id THEN strat ELSE hookStrategies[k]],
                PostedTo(strategiesFile, strat))
    /\ UNCHANGED isLoading

\* DELETE answers: setStrategies(prev => prev.filter(s => s.id !== id))
deleteStrategyResolved ==
  \E id \in HookIds :
    /\ Answered(Request("delete", HookStrategy(id, FALSE)),
                SelectSeq(hookStrategies, LAMBDA s : s.id # id),
                DeletedFrom(strategiesFile, id))
    /\ UNCHANGED isLoading

\* a response that is not ok, or a fetch that rejects: the call throws
requestFailed ==
  \E req \in pending :
    /\ req.op # "load"
    /\ Answered(req, hookStrategies, strategiesFile)
    /\ UNCHANGED isLoading

\* ------------------------------------------------------------------------
\* Specifications
\* ------------------------------------------------------------------------
LedgerIdle ==
  /\ user = "u1"
  /\ portfolioRef = INITIAL_PORTFOLIO
  /\ initialUsd = [amount |-> InitialUsdAmount, transactions |-> <<>>]
  /\ aliased = FALSE
  /\ transactionLog = {}
  /\ lastTransactionRef = 0
  /\ nextCleanup = StartTime + 500

\* ------------------------------------------------------------------------
\* Loading and saving the portfolio (usePortfolio effects, /api/portfolio)
\* ------------------------------------------------------------------------
UserIds == {"u1", "u2"}

\* the portfolio requests in flight when the user changes
MaxRequests == 2

\* what data/portfolios/<userId>.json holds: each user bought one unit of an
\* asset of their own at 2000
StoredPortfolio(u) ==
  ApplyBuy(INITIAL_PORTFOLIO,
           [type |-> "buy", symbol |-> IF u = "u1" THEN "BTC" ELSE "ETH", amount |-> 1,
            price |-> 2000, timestamp |-> 500])

\* a GET of the load effect: live is the isMounted flag of the effect run
\* that sent it, body the response (<<>> until the server has answered)
LoadRequest(u, live, body) == [userId |-> u, live |-> live, body |-> body]

\* the POST of the save effect
SaveRequest(u, portfolio) == [userId |-> u, portfolio |-> portfolio]

\* the save effect for a render with the given user, portfolio and isLoading
SaveEffect(u, portfolio, loading) ==
  IF u = NoUser \/ loading THEN saves ELSE saves \cup {SaveRequest(u, portfolio)}

\* the user of the UserContext changes (login, logout, another account):
\* the cleanup of the load effect clears isMounted, the load effect and the
\* save effect run for the new user
UserChanged(u) ==
  /\ u # user
  /\ Cardinality(loads) < MaxRequests
  /\ Cardinality(saves) < MaxRequests
  /\ user' = u
  /\ LET cancelled == {[r EXCEPT !.live = FALSE] : r \in loads}
     IN  IF u # NoUser
         THEN /\ loads' = cancelled \cup {LoadRequest(u, TRUE, <<>>)}
              /\ saves' = SaveEffect(u, portfolioRef, isLoadingPortfolio)
              /\ UNCHANGED <<portfolioRef, aliased, isLoadingPortfolio>>
         ELSE /\ loads' = cancelled
              /\ portfolioRef' = <<UsdItem(initialUsd.amount, initialUsd.transactions)>>
              /\ aliased' = TRUE
              /\ isLoadingPortfolio' = FALSE
              /\ UNCHANGED saves
  /\ UNCHANGED <<now, initialUsd, transactionLog, lastTransactionRef, nextCleanup,
                 portfolioStore, schedVars, cronVars, signalVars, hookVars>>

UserChange == \E u \in UserIds \cup {NoUser} : UserChanged(u)

\* GET /api/portfolio: getPortfolio reads the user's file
portfolioGET(r) ==
  /\ r \in loads
  /\ r.body = <<>>
  /\ loads' = (loads \ {r}) \cup {[r EXCEPT !.body = portfolioStore[r.userId]]}
  /\ UNCHANGED <<now, user, portfolioRef, initialUsd, aliased, transactionLog,
                 lastTransactionRef, nextCleanup, isLoadingPortfolio, saves, portfolioStore,
                 schedVars, cronVars, signalVars, hookVars>>

\* the response of the GET arrives: the portfolio is set if the effect run
\* is still the current one, isLoading is cleared in any case, and the save
\* effect runs when the portfolio or isLoading changed
loadPortfolioResolved(r) ==
  /\ r \in loads
  /\ r.body # <<>>
  /\ loads' = loads \ {r}
  /\ isLoadingPortfolio' = FALSE
  /\ IF r.live
     THEN /\ portfolioRef' = r.body
          /\ aliased' = FALSE
          /\ saves' = SaveEffect(user, r.body, FALSE)
     ELSE /\ UNCHANGED <<portfolioRef, aliased>>
          /\ saves' = IF isLoadingPortfolio THEN SaveEffect(user, portfolioRef, FALSE)
                      ELSE saves
  /\ UNCHANGED <<now, user, initialUsd, transactionLog, lastTransactionRef, nextCleanup,
                 portfolioStore, schedVars, cronVars, signalVars, hookVars>>

\* the GET fails (fetch rejects or the response is not ok): the portfolio
\* is kept, isLoading is cleared
loadPortfolioRejected(r) ==
  /\ r \in loads
  /\ loads' = loads \ {r}
  /\ isLoadingPortfolio' = FALSE
  /\ saves' = IF isLoadingPortfolio THEN SaveEffect(user, portfolioRef, FALSE) ELSE saves
  /\ UNCHANGED <<now, user, portfolioRef, initialUsd, aliased, transactionLog,
                 lastTransactionRef, nextCleanup, portfolioStore,
                 schedVars, cronVars, signalVars, hookVars>>

\* POST /api/portfolio: savePortfolio writes the user's file
portfolioPOST(q) ==
  /\ q \in saves
  /\ saves' = saves \ {q}
  /\ portfolioStore' = [portfolioStore EXCEPT ![q.userId] = q.portfolio]
  /\ UNCHANGED <<now, ledgerVars, isLoadingPortfolio, loads, schedVars, cronVars,
                 signalVars, hookVars>>

\* the POST fails; saveData logs the error
savePortfolioRejected(q) ==
  /\ q \in saves
  /\ saves' = saves \ {q}
  /\ UNCHANGED <<now, ledgerVars, isLoadingPortfolio, loads, portfolioStore, schedVars,
                 cronVars, signalVars, hookVars>>

\* usePortfolio is not mounted or has loaded the portfolio
SyncIdle ==
  /\ isLoadingPortfolio = FALSE
  /\ loads = {}
  /\ saves = {}
  /\ portfolioStore = [u \in UserIds |-> INITIAL_PORTFOLIO]

\* useStrategies is not mounted
HookIdle ==
  /\ hookStrategies = <<>>
  /\ isLoading = TRUE
  /\ pending = {}

SignalIdle ==
  /\ history = <<>>
  /\ detector = NoStrategy
  /\ verdict = "none"

CronQuiet ==
  /\ strategiesFile = <<>>
  /\ portfolioFile = MissingPortfolio
  /\ cron = [i \in CronIds |-> CronIdle]
  /\ consoleLog = <<>>

SchedIdle ==
  /\ mounted = FALSE
  /\ lastExecution = NoTime
  /\ lastExecutionTimeRef = [time |-> 0, ma |-> 0, rsi |-> 0]
  /\ intervalRef = NoTimer
  /\ orders = <<>>

\* the portfolio of the logged-in user has been loaded; the hook was mounted
\* while the load was in flight
InitLedger ==
  /\ now = StartTime
  /\ LedgerIdle
  /\ SchedIdle
  /\ strategy = NoStrategy
  /\ cryptoData = <<>>
  /\ storage = NoStorage
  /\ CronQuiet
  /\ SignalIdle
  /\ HookIdle
  /\ SyncIdle

NextLedger == ExecuteOrder \/ resetPortfolio \/ cleanup \/ AdvanceLedger

SpecLedger == InitLedger /\ [][NextLedger]_vars

\* the ledger with calls a quarter of a second apart
NextThrottle == NextLedger \/ AdvanceQuarter

SpecThrottle == InitLedger /\ [][NextThrottle]_vars

\* the page is about to mount useStrategyManager for a stored strategy
InitSched ==
  /\ now = SchedStartTime
  /\ LedgerIdle
  /\ SchedIdle
  /\ strategy \in StrategyChoices \cup {NoStrategy}
  /\ cryptoData \in CryptoSnapshots
  /\ storage \in StorageChoices
  /\ CronQuiet
  /\ SignalIdle
  /\ HookIdle
  /\ SyncIdle

NextSched ==
  \/ Mount
  \/ PriceUpdate
  \/ ToggleEnabled
  \/ DeleteStrategy
  \/ CreateStrategy
  \/ Tick
  \/ AdvanceSched
  \/ AdvanceToCheck

SpecSched == InitSched /\ [][NextSched]_vars

\* the page mounts useStrategyManager for an RSI strategy; cryptoData holds
\* a series of price points of its asset
InitRsi ==
  /\ now = SchedStartTime
  /\ LedgerIdle
  /\ SchedIdle
  /\ strategy \in RsiChoices
  /\ cryptoData \in SeriesSnapshots
  /\ storage \in StorageChoices
  /\ CronQuiet
  /\ SignalIdle
  /\ HookIdle
  /\ SyncIdle

NextRsi ==
  \/ Mount
  \/ SeriesUpdate
  \/ ToggleEnabled
  \/ DeleteStrategy
  \/ CreateRsiStrategy
  \/ Tick
  \/ AdvanceToCheck

SpecRsi == InitRsi /\ [][NextRsi]_vars

\* the page mounts useStrategyManager for an enabled DCA or moving-average
\* strategy; the price list is empty, holds the asset once, or holds a
\* series of price points of the asset
ArmChoices ==
  {MkStrategy("DCA", TRUE, "bitcoin", Num(100), 5, 0, 0),
   MkStrategy("MOVING_AVERAGE", TRUE, "bitcoin", Num(100), 0, 1, 2)}

ArmSnapshots ==
  {<<>>, <<Crypto("bitcoin", "BTC", 50000, <<40000>>)>>, Series(<<10, 20, 30>>)}

InitArm ==
  /\ now = SchedStartTime
  /\ LedgerIdle
  /\ SchedIdle
  /\ strategy \in ArmChoices
  /\ cryptoData \in ArmSnapshots
  /\ storage = NoStorage
  /\ CronQuiet
  /\ SignalIdle
  /\ HookIdle
  /\ SyncIdle

ArmPriceUpdate == \E data \in ArmSnapshots : PricesArrive(data)

CreateArmStrategy == \E strat \in ArmChoices : StrategyCreated(strat)

NextArm ==
  \/ Mount
  \/ ArmPriceUpdate
  \/ ToggleEnabled
  \/ DeleteStrategy
  \/ CreateArmStrategy
  \/ Tick
  \/ AdvanceSched
  \/ AdvanceToCheck

SpecArm == InitArm /\ [][NextArm]_vars

\* the page is reloaded: the hook unmounts (the cleanup clears the interval),
\* its state and refs are gone, localStorage stays
Reload ==
  /\ mounted
  /\ mounted' = FALSE
  /\ lastExecution' = NoTime
  /\ lastExecutionTimeRef' = [time |-> 0, ma |-> 0, rsi |-> 0]
  /\ intervalRef' = NoTimer
  /\ UNCHANGED <<now, strategy, cryptoData, storage, orders, ledgerVars, cronVars, signalVars, hookVars, syncVars>>

NextReload == NextRsi \/ Reload

SpecReload == InitRsi /\ [][NextReload]_vars

\* the strategies file holds one or two DCA strategies; two cron requests
\* may be in flight
CronStrategyFiles ==
  LET S1 == {CronStrategy("s1", e, "BTC", 100, iv, le) :
               e \in BOOLEAN, iv \in {5, 10},
               le \in {NoTime, ToISOString(CronStartTime - 15000)}}
      S2 == {CronStrategy("s2", TRUE, "ETH", 100, 5, NoTime)}
  IN  {<<a>> : a \in S1} \cup {<<a, b>> : a \in S1, b \in S2}

InitCron ==
  /\ now = CronStartTime
  /\ LedgerIdle
  /\ SchedIdle
  /\ strategy = NoStrategy
  /\ cryptoData = <<>>
  /\ storage = NoStorage
  /\ strategiesFile \in CronStrategyFiles
  /\ portfolioFile \in {MissingPortfolio, DefaultPortfolio,
                         [exists |-> TRUE, assets |-> <<Asset("BTC", Num(1), 40)>>]}
  /\ cron = [i \in CronIds |-> CronIdle]
  /\ consoleLog = <<>>
  /\ SignalIdle
  /\ HookIdle
  /\ SyncIdle

NextCron ==
  \/ \E i \in CronIds : executeStrategies(i)
  \/ \E i \in CronIds : fetchResolved(i)
  \/ \E i \in CronIds : fetchRejected(i)
  \/ AdvanceCron

SpecCron == InitCron /\ [][NextCron]_vars

\* one cron run at a time, while the user saves and deletes strategies
\* through /api/strategies
NextRoutes ==
  \/ executeStrategies(1)
  \/ fetchResolved(1)
  \/ fetchRejected(1)
  \/ StrategiesPOST
  \/ StrategiesDELETE
  \/ AdvanceCron

SpecRoutes == InitCron /\ [][NextRoutes]_vars

\* useStrategies mounts: the list is empty and the first GET is in flight
InitStrategies ==
  /\ now = CronStartTime
  /\ LedgerIdle
  /\ SchedIdle
  /\ strategy = NoStrategy
  /\ cryptoData = <<>>
  /\ storage = NoStorage
  /\ strategiesFile \in {<<>>} \cup {<<a>> : a \in HookStrategyChoices}
                       \cup {<<HookStrategy("s1", TRUE), HookStrategy("s2", TRUE)>>}
  /\ portfolioFile = MissingPortfolio
  /\ cron = [i \in CronIds |-> CronIdle]
  /\ consoleLog = <<>>
  /\ SignalIdle
  /\ hookStrategies = <<>>
  /\ isLoading = TRUE
  /\ pending = {Request("load", HookStrategy("s1", FALSE))}
  /\ SyncIdle

NextStrategies ==
  \/ addStrategy
  \/ updateStrategy
  \/ deleteStrategy
  \/ fetchStrategiesResolved
  \/ fetchStrategiesRejected
  \/ addStrategyResolved
  \/ updateStrategyResolved
  \/ deleteStrategyResolved
  \/ requestFailed

SpecStrategies == InitStrategies /\ [][NextStrategies]_vars

\* the strategies a client may save: either id on either asset
StoreChoices ==
  {CronStrategy(id, e, symbol, 100, iv, NoTime) :
     id \in HookIds, e \in BOOLEAN, symbol \in Symbols, iv \in {5, 10}}

\* POST /api/strategies with a strategy of the client
SaveStrategy ==
  \E strat \in StoreChoices :
    /\ strategiesFile' = PostedTo(strategiesFile, strat)
    /\ UNCHANGED <<now, portfolioFile, cron, consoleLog, ledgerVars, schedVars, signalVars, hookVars, syncVars>>

\* DELETE /api/strategies with an id of the client
RemoveStrategy ==
  \E id \in HookIds :
    /\ strategiesFile' = DeletedFrom(strategiesFile, id)
    /\ UNCHANGED <<now, portfolioFile, cron, consoleLog, ledgerVars, schedVars, signalVars, hookVars, syncVars>>

\* data/strategies.json is created empty; clients save and delete
InitStore ==
  /\ now = CronStartTime
  /\ LedgerIdle
  /\ SchedIdle
  /\ strategy = NoStrategy
  /\ cryptoData = <<>>
  /\ storage = NoStorage
  /\ CronQuiet
  /\ SignalIdle
  /\ HookIdle
  /\ SyncIdle

NextStore == SaveStrategy \/ RemoveStrategy

SpecStore == InitStore /\ [][NextStore]_vars

\* usePortfolio has mounted and its effects have run: without a user the
\* portfolio is the initial one and isLoading is cleared, with a user the
\* load is in flight; every user has a stored portfolio
InitSync ==
  /\ now = StartTime
  /\ user \in {NoUser, "u1"}
  /\ portfolioRef = INITIAL_PORTFOLIO
  /\ initialUsd = [amount |-> InitialUsdAmount, transactions |-> <<>>]
  /\ aliased = TRUE
  /\ transactionLog = {}
  /\ lastTransactionRef = 0
  /\ nextCleanup = StartTime + 500
  /\ SchedIdle
  /\ strategy = NoStrategy
  /\ cryptoData = <<>>
  /\ storage = NoStorage
  /\ CronQuiet
  /\ SignalIdle
  /\ HookIdle
  /\ isLoadingPortfolio = (user # NoUser)
  /\ loads = IF user = NoUser THEN {} ELSE {LoadRequest(user, TRUE, <<>>)}
  /\ saves = {}
  /\ portfolioStore = [u \in UserIds |-> StoredPortfolio(u)]

NextSync ==
  \/ UserChange
  \/ \E r \in loads : portfolioGET(r)
  \/ \E r \in loads : loadPortfolioResolved(r)
  \/ \E r \in loads : loadPortfolioRejected(r)
  \/ \E q \in saves : portfolioPOST(q)
  \/ \E q \in saves : savePortfolioRejected(q)

SpecSync == InitSync /\ [][NextSync]_vars

InitSignal ==
  /\ now = SchedStartTime
  /\ LedgerIdle
  /\ SchedIdle
  /\ strategy = NoStrategy
  /\ cryptoData = <<>>
  /\ storage = NoStorage
  /\ CronQuiet
  /\ \/ history \in Histories /\ detector \in Detectors
     \/ history \in RsiHistories /\ detector \in RsiDetectors
  /\ verdict = "none"
  /\ HookIdle
  /\ SyncIdle

NextSignal == Evaluate \/ NewHistory \/ EvaluateRsi \/ NewSeries

SpecSignal == InitSignal /\ [][NextSignal]_vars

\* ------------------------------------------------------------------------
\* Properties of the ledger
\* ------------------------------------------------------------------------
AllTransactions(p) == UNION {{p[i].transactions[k] : k \in 1..Len(p[i].transactions)} : i \in 1..Len(p)}

SameOrder(a, b) ==
  a.type = b.type /\ a.symbol = b.symbol /\ a.amount = b.amount /\ a.price = b.price

\* C1: after any sequence of executeOrder calls the USD holding and every
\* asset holding have an amount >= 0.
C1_HoldingsNonNegative ==
  \A i \in 1..Len(portfolioRef) : portfolioRef[i].amount >= 0

\* the order is one the ledger has to reject: a BUY that costs more than the
\* cash, or a SELL of an asset that is absent or held in a smaller amount
MustReject(type, symbol, amount, price) ==
  \/ type = "buy" /\ BalanceOf(portfolioRef, "USD") < amount * price
  \/ type = "sell" /\ ( FindIndex(portfolioRef, symbol) = 0
                        \/ BalanceOf(portfolioRef, symbol) < amount )

\* C2: an executeOrder call for an order that has to be rejected leaves every
\* holding amount, average price and transaction list as it was.
C2_RejectedOrderLeavesPortfolio ==
  [][\A type \in Types, symbol \in Symbols, amount \in Amounts, price \in Prices :
        (executeOrder(type, symbol, amount, price) /\ MustReject(type, symbol, amount, price))
           => portfolioRef' = portfolioRef]_vars

\* C3: the same order (type, symbol, amount, price) is never applied twice
\* within the retention window of the transaction log.
C3_SameOrderAppliedOnce ==
  LET txs == UsdOf(portfolioRef).transactions
  IN  \A i, j \in 1..Len(txs) :
        (i < j /\ SameOrder(txs[i], txs[j]) /\ txs[i].amount > 0 /\ txs[i].price > 0)
           => txs[j].timestamp - txs[i].timestamp > TransactionRetentionMs

\* C8: every transaction recorded in the portfolio has amount > 0 and
\* price > 0 (orders with another amount or price are rejected).
C8_RecordedTransactionsPositive ==
  \A tx \in AllTransactions(portfolioRef) : tx.amount > 0 /\ tx.price > 0

\* ------------------------------------------------------------------------
\* Properties of the scheduler
\* ------------------------------------------------------------------------
\* the last execution the program knows of: its state once mounted, the
\* stored item before
KnownLastExecution ==
  IF mounted THEN lastExecution ELSE getStoredExecutionTimes(storage)

OrderSubmitted == Len(orders') > Len(orders)

PositiveAmount(a) == a # NonFinite /\ a[1] > 0

HasPrice(data, strat) ==
  FindCrypto(data, strat.symbol) # 0 /\ data[FindCrypto(data, strat.symbol)].currentPrice > 0

\* max(interval hours, 30 seconds) in milliseconds
DueInterval(strat) ==
  IF strat.interval * 3600 >= 30000 THEN strat.interval * 3600 ELSE 30000

\* C4: a DCA strategy submits an order only if it has never executed or its
\* last execution is at least max(interval hours, 30 seconds) ago, so that
\* two consecutive DCA orders are at least that interval apart.
C4_DcaAtMostOncePerInterval ==
  [][(strategy'.type = "DCA" /\ OrderSubmitted)
        => /\ \/ KnownLastExecution = NoTime
              \/ now - GetTime(KnownLastExecution) >= DueInterval(strategy')
           /\ Len(orders') = Len(orders) + 1
           /\ (orders # <<>> /\ KnownLastExecution # NoTime)
                 => now - orders[Len(orders)].at >= DueInterval(strategy')]_vars

C4_Witness ==
  /\ strategy.type = "DCA"
  /\ Len(orders) = 2
  /\ orders[2].at - orders[1].at = 30000
  /\ strategy.interval * 3600 < 30000

\* C5: when invocations of executeStrategies overlap, a due DCA strategy is
\* executed by at most one of them (an execution finds the strategy still
\* due in the strategies file) and no portfolio update is lost (an
\* execution adds its quantity to the quantity on file and keeps the other
\* assets).
C5_CronExecutesDueOnce ==
  [][Len(consoleLog') > Len(consoleLog)
       => LET e == consoleLog'[Len(consoleLog')]
              k == FindBy(strategiesFile, "id", e.id, 1)
          IN  /\ CronDue(strategiesFile[k], e.at)
              /\ QuantityOf(portfolioFile'.assets, e.symbol)
                   = RatAdd(QuantityOf(portfolioFile.assets, e.symbol), e.quantity)
              /\ \A s \in Symbols \ {e.symbol} :
                   QuantityOf(portfolioFile'.assets, s) = QuantityOf(portfolioFile.assets, s)]_vars

\* C6: an enabled DCA strategy with amount > 0 that has never executed and
\* whose asset has a price submits, when it is first observed, exactly one
\* BUY of amount / currentPrice units at currentPrice and records the time.
C6_FirstObservation ==
  /\ now' = now
  /\ mounted'
  /\ strategy'.type = "DCA" /\ strategy'.enabled /\ PositiveAmount(strategy'.amount)
  /\ HasPrice(cryptoData', strategy')
  /\ KnownLastExecution = NoTime
  /\ Len(orders) < MaxOrders

C6_DcaFirstExecution ==
  [][C6_FirstObservation
        => LET info == cryptoData'[FindCrypto(cryptoData', strategy'.symbol)]
               o == orders'[Len(orders')]
           IN  /\ Len(orders') = Len(orders) + 1
               /\ SubSeq(orders', 1, Len(orders)) = orders
               /\ o.type = "buy" /\ o.symbol = info.symbol /\ o.price = info.currentPrice
               /\ o.amount # NonFinite
               /\ o.amount[1] * info.currentPrice * strategy'.amount[2]
                     = strategy'.amount[1] * o.amount[2]
               /\ o.at = now
               /\ lastExecution' = ToISOString(now)
               /\ lastExecutionTimeRef'.time = now]_vars

\* 100 USD at 50000 buys 0.002 BTC
C6_Witness ==
  /\ mounted /\ strategy.type = "DCA" /\ strategy.amount = Num(100)
  /\ orders = <<Order("buy", "BTC", <<1, 500>>, 50000, now)>>
  /\ lastExecution = ToISOString(now)
  /\ lastExecutionTimeRef.time = now

\* C7: while the strategy is disabled or null no timer is armed for it and
\* no order is submitted.
C7_DisabledNeverRuns ==
  [][~strategy'.enabled => (orders' = orders /\ ~intervalRef'.armed)]_vars

C7_Witness ==
  /\ mounted /\ strategy # NoStrategy /\ ~strategy.enabled
  /\ PositiveAmount(strategy.amount) /\ HasPrice(cryptoData, strategy)
  /\ lastExecution = NoTime
  /\ now > SchedStartTime
  /\ ~intervalRef.armed

\* C9: a DCA strategy whose amount is zero, negative or missing never
\* submits an order.
C9_DcaWithoutAmountNeverOrders ==
  [][(strategy'.type = "DCA" /\ ~PositiveAmount(strategy'.amount)) => ~OrderSubmitted]_vars

\* C10: when the asset has no entry in the price data (or the data is empty)
\* no order is submitted and nothing is recorded, the periodic check stays
\* armed while there is price data, and the strategy is evaluated when the
\* price arrives.
NoPriceFor(data, strat) == FindCrypto(data, strat.symbol) = 0

C10_NoPriceSkipsCycle ==
  [][/\ (mounted' /\ NoPriceFor(cryptoData', strategy'))
          => /\ orders' = orders
             /\ (mounted => lastExecution' = lastExecution
                            /\ lastExecutionTimeRef' = lastExecutionTimeRef)
             /\ (strategy'.enabled /\ Len(cryptoData') > 0) => intervalRef'.armed
     /\ (mounted /\ NoPriceFor(cryptoData, strategy) /\ C6_FirstObservation /\ strategy' = strategy)
          => OrderSubmitted]_vars

C10_Witness ==
  /\ mounted /\ strategy.type = "DCA" /\ strategy.enabled /\ PositiveAmount(strategy.amount)
  /\ NoPriceFor(cryptoData, strategy) /\ Len(cryptoData) > 0
  /\ lastExecution = NoTime
  /\ now >= SchedStartTime + 10000
  /\ intervalRef.armed /\ intervalRef.due <= now + 10000
  /\ orders = <<>>

\* the step evaluates an enabled DCA strategy with a positive amount that is
\* due (never executed, or its interval has passed)
DcaDueAttempt ==
  /\ now' = now
  /\ mounted'
  /\ strategy'.type = "DCA" /\ strategy'.enabled /\ PositiveAmount(strategy'.amount)
  /\ Len(cryptoData') > 0
  /\ \/ KnownLastExecution = NoTime
     \/ now - GetTime(KnownLastExecution) >= DueInterval(strategy')
  /\ Len(orders) < MaxOrders

\* C11: a due DCA strategy advances its last-execution time when it is
\* attempted, whether or not a trade resulted, also when the price of its
\* asset is missing.
C11_DcaAttemptAdvancesLastExecution ==
  [][DcaDueAttempt => lastExecution' = ToISOString(now)]_vars

\* ------------------------------------------------------------------------
\* Properties of the signal strategies
\* ------------------------------------------------------------------------
\* a * m compared with b * n: the mean of n prices p against the mean of m
\* prices q
MeanLess(p, q) == Sum(p) * Len(q) < Sum(q) * Len(p)

MeanLeq(p, q) == Sum(p) * Len(q) <= Sum(q) * Len(p)

WithoutLast(h) == SubSeq(h, 1, Len(h) - 1)

\* the crossover rule: short and long mean of the history against those of
\* the history without its last point
CrossoverSignal(h, shortPeriod, longPeriod) ==
  LET short == LastN(h, shortPeriod)
      long == LastN(h, longPeriod)
      prevShort == LastN(WithoutLast(h), shortPeriod)
      prevLong == LastN(WithoutLast(h), longPeriod)
  IN  IF MeanLess(long, short) /\ MeanLeq(prevShort, prevLong) THEN "BUY"
      ELSE IF MeanLess(short, long) /\ MeanLeq(prevLong, prevShort) THEN "SELL"
      ELSE "HOLD"

\* C12: on a price history with a full previous window the MOVING_AVERAGE
\* evaluation yields BUY exactly on an upward crossing of the short mean
\* over the long mean, SELL exactly on a downward crossing, HOLD otherwise.
C12_MASignalIsCrossover ==
  (verdict # "none" /\ detector.type = "MOVING_AVERAGE"
     /\ Len(history) >= detector.longPeriod + 1)
    => verdict = CrossoverSignal(history, detector.shortPeriod, detector.longPeriod)

\* the price history (oldest to newest) the price data holds for the asset
\* of the strategy
HistoryIn(data, strat) ==
  IF FindCrypto(data, strat.symbol) = 0 THEN <<>>
  ELSE data[FindCrypto(data, strat.symbol)].sparkline
         \o <<data[FindCrypto(data, strat.symbol)].currentPrice>>

ShortAboveLong(h, strat) ==
  /\ Len(h) >= strat.longPeriod
  /\ MeanLess(LastN(h, strat.longPeriod), LastN(h, strat.shortPeriod))

\* the step is the first evaluation of an enabled MOVING_AVERAGE strategy:
\* nothing has been executed or recorded for it
FirstMAEvaluation ==
  /\ now' = now
  /\ mounted'
  /\ strategy'.type = "MOVING_AVERAGE" /\ strategy'.enabled
  /\ Len(cryptoData') > 0
  /\ KnownLastExecution = NoTime
  /\ lastExecutionTimeRef.ma = 0
  /\ orders = <<>>

\* C13: the first evaluation of a newly enabled MOVING_AVERAGE strategy
\* whose short mean is already above its long mean submits no order.
C13_NoBuyOnFirstMAEvaluation ==
  [][(FirstMAEvaluation /\ ShortAboveLong(HistoryIn(cryptoData', strategy'), strategy'))
        => orders' = orders]_vars

\* the step is the periodic check of an enabled MOVING_AVERAGE strategy one
\* check interval after its last order, a BUY, with the price data as it was
CheckAfterBuy ==
  /\ mounted /\ now' = now
  /\ strategy.type = "MOVING_AVERAGE" /\ strategy.enabled /\ strategy' = strategy
  /\ cryptoData' = cryptoData
  /\ intervalRef.armed /\ now = intervalRef.due
  /\ orders # <<>>
  /\ orders[Len(orders)].type = "buy"
  /\ orders[Len(orders)].at = now - SignalCheckIntervalMs

\* C14: a MOVING_AVERAGE strategy that has bought on an upward crossing
\* holds at the next due evaluation when the short mean is still above the
\* long mean: no order is submitted.
C14_OneBuyPerUpwardCrossing ==
  [][(CheckAfterBuy /\ ShortAboveLong(HistoryIn(cryptoData, strategy), strategy))
        => orders' = orders]_vars

\* C15: with fewer than longPeriod price points for the asset a
\* MOVING_AVERAGE evaluation is HOLD and submits no order.
C15_MAInsufficientDataHolds ==
  (verdict # "none" /\ detector.type = "MOVING_AVERAGE"
     /\ Len(history) < detector.longPeriod)
    => verdict = "HOLD"

\* the zone of the RSI of the price points the data holds for the strategy:
\* 1 overbought, -1 oversold, 0 otherwise or without enough points
ZoneOf(data, strat) ==
  LET recentPrices == LastN(PricesOf(data, strat.symbol), strat.period + 1)
  IN  IF Len(recentPrices) < strat.period + 1 THEN 0 ELSE RSIState(recentPrices, strat)

\* the step evaluates an enabled RSI strategy that has enough price points
RsiEvaluation ==
  /\ now' = now
  /\ mounted'
  /\ strategy'.type = "RSI" /\ strategy'.enabled
  /\ Len(PricesOf(cryptoData', strategy'.symbol)) >= strategy'.period + 1
  /\ now - (IF mounted THEN lastExecutionTimeRef.time
                       ELSE GetTime(getStoredExecutionTimes(storage))) >= 300000
  /\ Len(orders) < MaxOrders

\* C16: the RSI strategy is edge-triggered.  An order is submitted only in a
\* step that finds the RSI in the oversold or overbought zone while another
\* zone was recorded: exactly one BUY for oversold, one SELL for overbought;
\* an evaluation that finds the recorded zone again submits nothing, and an
\* evaluation that finds a new oversold or overbought zone does submit.
C16_RsiEdgeTriggered ==
  [][strategy'.type = "RSI"
       => LET zone == ZoneOf(cryptoData', strategy')
              o == orders'[Len(orders')]
          IN  /\ OrderSubmitted
                   => /\ Len(orders') = Len(orders) + 1
                      /\ zone # 0
                      /\ lastExecutionTimeRef.rsi # zone
                      /\ lastExecutionTimeRef'.rsi = zone
                      /\ o.type = (IF zone = -1 THEN "buy" ELSE "sell")
              /\ (RsiEvaluation /\ zone # 0 /\ lastExecutionTimeRef.rsi # zone)
                   => OrderSubmitted]_vars

\* the falling series bought at the first evaluation and held at the next
C16_Witness ==
  /\ mounted /\ strategy.type = "RSI" /\ strategy.enabled
  /\ ZoneOf(cryptoData, strategy) = -1
  /\ Len(orders) = 1 /\ orders[1].type = "buy" /\ orders[1].at = SchedStartTime
  /\ now = SchedStartTime + 300000
  /\ intervalRef.armed /\ intervalRef.due > now
  /\ lastExecutionTimeRef.rsi = -1

StrictlyIncreasing(h) == \A k \in 1..(Len(h) - 1) : h[k] < h[k + 1]

StrictlyDecreasing(h) == \A k \in 1..(Len(h) - 1) : h[k] > h[k + 1]

\* the prices are in turn one step above and one step below a level
Alternating(h) ==
  /\ h[1] # h[2]
  /\ \A k \in 1..(Len(h) - 2) : h[k + 2] = h[k]

RsiTestSeries ==
  /\ detector.type = "RSI"
  /\ detector.period = 14 /\ detector.oversold = 30 /\ detector.overbought = 70
  /\ Len(history) = detector.period + 1

\* C17: with period 14, oversold 30 and overbought 70, on period + 1 prices
\* the RSI of a strictly increasing series is above 90 and the first
\* evaluation sells, the RSI of a strictly decreasing series is below 10 and
\* the first evaluation buys, and the RSI of an alternating series is
\* strictly between 30 and 70 and the evaluation trades nothing.
C17_RsiClassifiesTrends ==
  (verdict # "none" /\ RsiTestSeries)
    => LET rsi == RSIOf(history, detector.period)
       IN  /\ StrictlyIncreasing(history)
                => RatLess(Num(90), rsi) /\ verdict = "SELL"
           /\ StrictlyDecreasing(history)
                => RatLess(rsi, Num(10)) /\ verdict = "BUY"
           /\ Alternating(history)
                => /\ RatLess(Num(detector.oversold), rsi)
                   /\ RatLess(rsi, Num(detector.overbought))
                   /\ verdict = "HOLD"

\* a falling series of uneven steps was evaluated and bought
C17_Witness ==
  /\ RsiTestSeries
  /\ StrictlyDecreasing(history)
  /\ history[1] - history[2] # history[2] - history[3]
  /\ verdict = "BUY"

\* the step changes the last-execution time of the mounted strategy
ExecutionTimeChanged ==
  /\ mounted /\ mounted'
  /\ \/ lastExecution' # lastExecution
     \/ lastExecutionTimeRef'.time # lastExecutionTimeRef.time

\* C18: the last-execution time of a MOVING_AVERAGE or RSI strategy changes
\* only in a step that submits a trade; an evaluation that holds, or that
\* finds a zone change without an order, leaves it as it was.
C18_SignalTimeOnlyOnTrade ==
  [][(strategy'.type \in {"MOVING_AVERAGE", "RSI"} /\ ExecutionTimeChanged)
       => OrderSubmitted]_vars

\* the step deletes or disables a strategy that had a timer armed
CancelledWhileArmed ==
  /\ strategy.enabled /\ intervalRef.armed
  /\ ~strategy'.enabled

\* C19: the step that deletes or disables a strategy cancels the timer armed
\* for it, and the timer callback only ever fires for the enabled strategy
\* that is present: no callback armed before the deletion fires after it.
C19_PendingTimerCancelled ==
  [][/\ CancelledWhileArmed => intervalRef' = NoTimer
     /\ Tick => (strategy # NoStrategy /\ strategy.enabled)]_vars

\* the strategy ordered and armed its timer, was deleted, and the time at
\* which that timer was due has passed
C19_Witness ==
  /\ mounted /\ strategy = NoStrategy
  /\ Len(orders) = 1
  /\ now > orders[1].at + DcaCheckIntervalMs
  /\ now < orders[1].at + DcaMinIntervalMs
  /\ ~intervalRef.armed

\* the strategy a cron run is evaluating, while it awaits the prices
InFlight(i) == cron[i].strategies[cron[i].idx]

\* that strategy is no longer stored, or is stored disabled
NoLongerActive(i) ==
  LET k == FindBy(strategiesFile, "id", InFlight(i).id, 1)
  IN  k = 0 \/ ~strategiesFile[k].enabled

\* C20: when the strategy of an evaluation in flight has been deleted or
\* disabled, the step that completes the evaluation executes no trade for it
\* and writes no strategy record.
C20_InFlightResultDiscarded ==
  [][\A i \in CronIds :
       (cron[i].pc = "fetch" /\ NoLongerActive(i) /\ cron'[i] # cron[i])
         => (consoleLog' = consoleLog /\ strategiesFile' = strategiesFile)]_vars

\* the hook mounts again on an RSI strategy whose last recorded execution is
\* its last order, and the RSI is in the zone of that order
RemountInSameZone ==
  /\ ~mounted /\ mounted'
  /\ strategy.type = "RSI"
  /\ orders # <<>>
  /\ orders[Len(orders)].at = GetTime(getStoredExecutionTimes(storage))
  /\ ZoneOf(cryptoData, strategy) = (IF orders[Len(orders)].type = "buy" THEN -1 ELSE 1)

\* C21: the detector state survives a restart: an RSI strategy that is still
\* in the zone it ordered for before the page was reloaded submits no second
\* order for that zone when the hook mounts again.
C21_RestartKeepsDetectorState ==
  [][RemountInSameZone => ~OrderSubmitted]_vars

\* the next strategy of the pass of cron run i that is enabled and due,
\* after the one it is evaluating; 0 when there is none
DueAfter(i) == NextDue(cron[i].strategies, cron[i].idx + 1, now)

\* C22: a failure in the evaluation of one strategy does not end the pass of
\* executeStrategies: when the evaluation in flight ends, in whatever way,
\* the pass goes on to the next enabled, due strategy.
C22_FailureDoesNotStopPass ==
  [][\A i \in CronIds :
       (cron[i].pc = "fetch" /\ cron'[i] # cron[i] /\ DueAfter(i) # 0)
         => (cron'[i].pc = "fetch" /\ cron'[i].idx = DueAfter(i))]_vars

\* quantity * averagePrice of the holding of a symbol in a stored portfolio
CostBasis(file, symbol) ==
  LET k == FindBy(file.assets, "symbol", symbol, 1)
  IN  IF k = 0 THEN Num(0)
      ELSE Rat(file.assets[k].quantity[1] * file.assets[k].averagePrice,
               file.assets[k].quantity[2])

\* C23: buys keep the average price volume-weighted: a cron run that buys
\* for `amount` USD raises quantity * averagePrice of the holding by exactly
\* that amount.
C23_AveragePriceIsVolumeWeighted ==
  [][\A i \in CronIds :
       (cron[i].pc = "fetch" /\ cron'[i] # cron[i] /\ Len(consoleLog') > Len(consoleLog))
         => CostBasis(portfolioFile', InFlight(i).symbol)
              = RatAdd(CostBasis(portfolioFile, InFlight(i).symbol), Num(InFlight(i).amount))]_vars

\* C24: a buy debits the USD holding by amount * price and raises the
\* holding of the asset by the quantity bought, and changes no other
\* holding: for a cron run that buys for `amount` USD, the USD holding of
\* the stored portfolio falls by that amount.
C24_BuyDebitsUsd ==
  [][\A i \in CronIds :
       (cron[i].pc = "fetch" /\ cron'[i] # cron[i] /\ Len(consoleLog') > Len(consoleLog))
         => LET e == consoleLog'[Len(consoleLog')]
            IN  /\ QuantityOf(portfolioFile'.assets, e.symbol)
                     = RatAdd(QuantityOf(portfolioFile.assets, e.symbol), e.quantity)
                /\ QuantityOf(portfolioFile'.assets, "USD")
                     = RatAdd(QuantityOf(portfolioFile.assets, "USD"), Num(-InFlight(i).amount))
                /\ \A s \in Symbols \ {e.symbol} :
                     QuantityOf(portfolioFile'.assets, s) = QuantityOf(portfolioFile.assets, s)]_vars

\* the step applies an order to the ledger: the USD holding records one
\* more transaction
LedgerApplied ==
  Len(UsdOf(portfolioRef').transactions) = Len(UsdOf(portfolioRef).transactions) + 1

LastApplied ==
  UsdOf(portfolioRef').transactions[Len(UsdOf(portfolioRef').transactions)]

HoldingOf(p, symbol) == p[FindIndex(p, symbol)]

\* C25: an applied sell of a positive amount of a held asset credits USD by
\* amount * price, lowers the holding by the amount and leaves its average
\* price as it was, also when the holding falls to 0.
C25_SellKeepsAveragePrice ==
  [][(/\ LedgerApplied
      /\ LastApplied.type = "sell" /\ LastApplied.amount > 0
      /\ FindIndex(portfolioRef, LastApplied.symbol) # 0)
       => /\ BalanceOf(portfolioRef', "USD")
               = BalanceOf(portfolioRef, "USD") + LastApplied.amount * LastApplied.price
          /\ BalanceOf(portfolioRef', LastApplied.symbol)
               = BalanceOf(portfolioRef, LastApplied.symbol) - LastApplied.amount
          /\ HoldingOf(portfolioRef', LastApplied.symbol).averagePrice
               = HoldingOf(portfolioRef, LastApplied.symbol).averagePrice]_vars

IsPrefix(q, r) == Len(q) <= Len(r) /\ SubSeq(r, 1, Len(q)) = q

\* the step is a portfolio reset
ResetStep ==
  /\ portfolioRef' = <<UsdItem(initialUsd.amount, initialUsd.transactions)>>
  /\ lastTransactionRef' = lastTransactionRef

\* C26: the transaction history is append-only: in every step that is not a
\* portfolio reset each holding is still there afterwards and the
\* transactions it recorded are the first of those it records then.
C26_HistoryAppendOnly ==
  [][ResetStep
     \/ \A k \in 1..Len(portfolioRef) :
          /\ FindIndex(portfolioRef', portfolioRef[k].symbol) # 0
          /\ IsPrefix(portfolioRef[k].transactions,
                      HoldingOf(portfolioRef', portfolioRef[k].symbol).transactions)]_vars

\* an asset was bought and then sold completely: its zero-amount record
\* holds the buy and the sell
C26_Witness ==
  \E k \in 1..Len(portfolioRef) :
    /\ portfolioRef[k].symbol # "USD"
    /\ portfolioRef[k].amount = 0
    /\ Len(portfolioRef[k].transactions) = 2
    /\ portfolioRef[k].transactions[1].type = "buy"
    /\ portfolioRef[k].transactions[1].amount > 0
    /\ portfolioRef[k].transactions[2].type = "sell"

\* C27: every order submitted for the portfolio of the logged-in user is
\* either processed against the current portfolio or rejected for a reason
\* of the ledger (insufficient funds, insufficient assets): whatever order is
\* submitted in a state, executeOrder does not drop it for another reason.
C27_OrdersAppliedOrRejected ==
  user # NoUser
    => \A type \in Types, symbol \in Symbols, amount \in Amounts, price \in Prices :
         (amount > 0 /\ price > 0)
           => OrderOutcome(type, symbol, amount, price)
                \in {"processed", "insufficient funds", "insufficient assets"}

\* the request that the step answers
AnsweredRequest == CHOOSE req \in pending : req \notin pending'

\* the list after the step is the list before it with the strategy at its end
AddedLast(strat) ==
  /\ Len(hookStrategies') = Len(hookStrategies) + 1
  /\ hookStrategies'[Len(hookStrategies')] = strat
  /\ \A k \in 1..Len(hookStrategies) : hookStrategies'[k] = hookStrategies[k]

\* the entries of the strategy's id hold the strategy, the others are as before
ReplacedById(strat) ==
  /\ Len(hookStrategies') = Len(hookStrategies)
  /\ \A k \in 1..Len(hookStrategies) :
       hookStrategies'[k] = (IF hookStrategies[k].id = strat.id THEN strat
                             ELSE hookStrategies[k])

\* no entry has the id, the other entries are kept in their order
RemovedById(id) ==
  /\ \A k \in 1..Len(hookStrategies') : hookStrategies'[k].id # id
  /\ hookStrategies' = SelectSeq(hookStrategies, LAMBDA s : s.id # id)

\* C28: after the initial load of useStrategies, a successful addStrategy
\* appends the saved strategy, a successful updateStrategy replaces the
\* entry of the same id and nothing else, and a successful deleteStrategy
\* removes the entry of the given id and nothing else.
C28_StrategyListUpdates ==
  [][~isLoading
       => /\ addStrategyResolved => AddedLast(AnsweredRequest.strategy)
          /\ updateStrategyResolved => ReplacedById(AnsweredRequest.strategy)
          /\ deleteStrategyResolved => RemovedById(AnsweredRequest.strategy.id)]_vars

\* both stored strategies were loaded and s1 was then updated to disabled
C28_Witness ==
  /\ ~isLoading /\ pending = {}
  /\ hookStrategies = <<HookStrategy("s1", FALSE), HookStrategy("s2", TRUE)>>
  /\ strategiesFile = hookStrategies

\* the step evaluates an enabled DCA strategy with a positive amount whose
\* asset has a price, while the stored execution times cannot be written
\* or cannot be parsed, and the strategy is due: never executed as far as
\* the program can read, or its interval has passed
DueWithStorageTrouble ==
  /\ now' = now
  /\ mounted'
  /\ strategy'.type = "DCA" /\ strategy'.enabled /\ PositiveAmount(strategy'.amount)
  /\ HasPrice(cryptoData', strategy')
  /\ Len(orders) < MaxOrders
  /\ \/ ~mounted /\ storage.kind = "invalid json"
     \/ /\ ~storage.writable
        /\ \/ KnownLastExecution = NoTime
           \/ now - GetTime(KnownLastExecution) >= DueInterval(strategy')

\* C29: a storage write that throws does not prevent or undo a due DCA
\* execution, and stored execution times that cannot be parsed count as
\* "never executed": in both cases the order is submitted, the execution is
\* recorded in the hook, and no order submitted before is taken back.
C29_StorageFailureKeepsExecution ==
  [][/\ DueWithStorageTrouble
        => /\ Len(orders') = Len(orders) + 1
           /\ orders'[Len(orders')].type = "buy"
           /\ orders'[Len(orders')].at = now
           /\ lastExecution' = ToISOString(now)
     /\ (~storage.writable \/ storage.kind = "invalid json")
        => /\ Len(orders') >= Len(orders)
           /\ SubSeq(orders', 1, Len(orders)) = orders]_vars

\* an order stands although its execution time could not be stored
C29_Witness ==
  /\ mounted /\ strategy.type = "DCA"
  /\ storage = FullStorage
  /\ Len(orders) = 2
  /\ lastExecution = ToISOString(orders[2].at)
  /\ orders[2].at > orders[1].at

\* an enabled strategy whose asset has a price has a check scheduled within
\* its check interval
Rearmed ==
  (mounted /\ strategy # NoStrategy /\ strategy.enabled /\ HasPrice(cryptoData, strategy))
    => /\ intervalRef.armed
       /\ now <= intervalRef.due
       /\ intervalRef.due <= now + CheckInterval(strategy)

\* the step evaluates an enabled DCA strategy that has submitted an order
\* before, whatever became of it, and whose interval has passed again
DueAgain ==
  /\ now' = now
  /\ mounted /\ mounted'
  /\ strategy'.type = "DCA" /\ strategy'.enabled /\ PositiveAmount(strategy'.amount)
  /\ HasPrice(cryptoData', strategy')
  /\ orders # <<>>
  /\ now - lastExecutionTimeRef.time >= DueInterval(strategy')
  /\ Len(orders) < MaxOrders

\* C30: an enabled strategy whose asset has price data is always re-armed:
\* after every evaluation (trade, HOLD, baseline pass, effect re-run on a
\* price update) a check is scheduled within the check interval, and a DCA
\* strategy submits again at its next due cycle whatever became of its
\* earlier order.
C30_AlwaysRearmed ==
  /\ []Rearmed
  /\ [][DueAgain => /\ Len(orders') = Len(orders) + 1
                    /\ orders'[Len(orders')].type = "buy"
                    /\ orders'[Len(orders')].at = now
                    /\ intervalRef'.armed]_vars

\* a DCA strategy has submitted again a due cycle after its first order and
\* its next check is scheduled
C30_Witness ==
  /\ mounted /\ strategy # NoStrategy /\ strategy.type = "DCA" /\ strategy.enabled
  /\ storage # FullStorage
  /\ Len(orders) = 2
  /\ orders[2].at >= orders[1].at + DueInterval(strategy)
  /\ orders[2].at = now
  /\ intervalRef.armed /\ intervalRef.due = now + DcaCheckIntervalMs

\* the RSI window of the strategy: the last period + 1 price points
RsiWindow(data, strat) == LastN(PricesOf(data, strat.symbol), strat.period + 1)

\* no price of the window is below the one before it
NoLoss(h) == \A k \in 1..(Len(h) - 1) : h[k] <= h[k + 1]

\* C31: when no price delta of the RSI window is negative (avgLoss is 0), a
\* completely flat window included, the RSI is 100 and the evaluation
\* records the overbought zone.
C31_NoLossIsOverbought ==
  [][(RsiEvaluation /\ NoLoss(RsiWindow(cryptoData', strategy')))
       => /\ RSIOf(RsiWindow(cryptoData', strategy'), strategy'.period) = Num(100)
          /\ lastExecutionTimeRef'.rsi = 1]_vars

\* the number of entries of the portfolio with the given symbol
EntriesOf(p, symbol) == Cardinality({i \in 1..Len(p) : p[i].symbol = symbol})

\* C32: after any sequence of buys, sells (a sell of the whole holding
\* followed by a new buy of the asset included) and resets, the portfolio
\* holds at most one entry per symbol and exactly one USD entry.
C32_OneEntryPerSymbol ==
  /\ EntriesOf(portfolioRef, "USD") = 1
  /\ \A symbol \in Symbols : EntriesOf(portfolioRef, symbol) <= 1

\* the whole BTC holding was sold and BTC was bought again
C32_Witness ==
  \E i \in 1..Len(portfolioRef) :
    /\ portfolioRef[i].symbol = "BTC"
    /\ portfolioRef[i].amount > 0
    /\ Len(portfolioRef[i].transactions) = 3
    /\ portfolioRef[i].transactions[1].type = "buy"
    /\ portfolioRef[i].transactions[1].amount > 0
    /\ portfolioRef[i].transactions[2].type = "sell"
    /\ portfolioRef[i].transactions[2].amount = portfolioRef[i].transactions[1].amount
    /\ portfolioRef[i].transactions[3].type = "buy"

\* C33: after resetPortfolio, whatever orders were executed before it
\* (orders executed while the portfolio was the built-in initial portfolio
\* included), the portfolio is exactly one USD holding of 10000 with an
\* empty transaction list, and the built-in initial portfolio, which is
\* what is saved for the user, is the same.
C33_ResetRestoresInitialPortfolio ==
  [][ResetStep
       => /\ portfolioRef' = INITIAL_PORTFOLIO
          /\ initialUsd' = [amount |-> InitialUsdAmount, transactions |-> <<>>]]_vars

\* the portfolio is the one stored for the user when the page was opened
OwnPortfolio(u, portfolio) == portfolio = StoredPortfolio(u)

\* C34: the portfolio stored for a user is never overwritten with the
\* built-in initial portfolio or with another user's portfolio: while no
\* order is executed, every save in flight for a user carries the portfolio
\* that was loaded for that user, and the user's file keeps it.
C34_SaveCarriesOwnPortfolio ==
  /\ \A q \in saves : OwnPortfolio(q.userId, q.portfolio)
  /\ \A u \in UserIds : OwnPortfolio(u, portfolioStore[u])

\* no two entries of the sequence have the same value in the field
UniqueBy(q, field) ==
  \A i, j \in 1..Len(q) : q[i][field] = q[j][field] => i = j

\* C35: after any sequence of POST and DELETE requests no two stored
\* strategies have the same id and no two have the same symbol; saving a
\* stored strategy with another symbol leaves one record with its id.
C35_UniqueIdAndSymbol ==
  /\ UniqueBy(strategiesFile, "id")
  /\ UniqueBy(strategiesFile, "symbol")

\* the orders applied to the portfolio, in order: each is recorded on the
\* USD entry
AppliedOrders == UsdOf(portfolioRef).transactions

\* C36: any two orders applied to the portfolio have timestamps at least
\* 500 ms apart, and a step made less than 500 ms after the last accepted
\* call, other than a reset, changes nothing in the portfolio.
C36_AppliedOrdersHalfSecondApart ==
  /\ [](\A i, j \in 1..Len(AppliedOrders) :
          i < j => AppliedOrders[j].timestamp - AppliedOrders[i].timestamp
                     >= MinTransactionGapMs)
  /\ [][(now' = now /\ now - lastTransactionRef < MinTransactionGapMs /\ ~ResetStep)
         => /\ portfolioRef' = portfolioRef
            /\ initialUsd' = initialUsd
            /\ lastTransactionRef' = lastTransactionRef]_vars

\* two orders were applied 750 ms apart and the clock is 250 ms past the
\* second
C36_Witness ==
  /\ Len(AppliedOrders) = 2
  /\ AppliedOrders[2].timestamp - AppliedOrders[1].timestamp = 750
  /\ lastTransactionRef = AppliedOrders[2].timestamp
  /\ now - lastTransactionRef = 250

\* how often the transaction is a row of the history shown
RowsOf(tx) ==
  LET rows == TransactionHistory(portfolioRef)
  IN  Cardinality({k \in 1..Len(rows) : rows[k] = tx})

\* C37: the transaction history shown to the user contains every applied
\* order exactly once: the filter of the view removes only the second
\* stored copy of an order and never hides a distinct applied order.
C37_HistoryShowsEveryOrderOnce ==
  \A k \in 1..Len(AppliedOrders) : RowsOf(AppliedOrders[k]) = 1
====
